---- MODULE Spec2Model ----
(***************************************************************************)
(* Graph layout and multi-format interchange of lamaofficial/SkeRVS.       *)
(*                                                                         *)
(* Two renderings of the same logic are modelled:                          *)
(*   - the vanilla page   src/src/static/js/index.js                       *)
(*   - the React app      src/frontend/src/App.tsx and the Graph component *)
(*                        (second half of components/Sidebar.tsx)          *)
(*                                                                         *)
(* JavaScript values that the code tests for truthiness, looks up in a Map *)
(* or compares by type are tagged records ([t |-> "string", v |-> "A"]);   *)
(* JavaScript objects are functions whose domain is the set of properties  *)
(* that are present.  Weights are integers in thousandths (1234 = 1.234).  *)
(***************************************************************************)
EXTENDS Integers, Sequences, FiniteSets, TLC

(***************************************************************************)
(* Bounds of the model.                                                    *)
(***************************************************************************)
MaxNodes == 3
MaxLinks == 2
MaxCallers == 3
MaxSizes == 2
MaxPasses == 2

(***************************************************************************)
(* JavaScript values.                                                      *)
(***************************************************************************)
Str(s) == [t |-> "string", v |-> s]
Num(n) == [t |-> "number", v |-> n]
Undefined == [t |-> "undefined"]
Null == [t |-> "null"]
NaN == [t |-> "NaN"]

\* ToBoolean: "", 0, NaN, null and undefined are falsy, everything else is truthy.
Truthy(x) ==
    CASE x.t = "string" -> x.v # ""
      [] x.t = "number" -> x.v # 0
      [] x.t = "object" -> TRUE
      [] OTHER -> FALSE

\* a || b
OrElse(a, b) == IF Truthy(a) THEN a ELSE b

\* o.k of an object whose property may be absent
Get(o, k) == IF k \in DOMAIN o THEN o[k] ELSE Undefined

Min(a, b) == IF a <= b THEN a ELSE b

\* Map.prototype.get on a Map built by the sequence of set(key, value) calls m:
\* the last value set for the key, undefined when the key was never set.
MapGet(m, k) ==
    LET hits == {i \in 1..Len(m) : m[i][1] = k}
    IN  IF hits = {} THEN Undefined
        ELSE m[CHOOSE i \in hits : \A j \in hits : j <= i][2]

MapHas(m, k) == \E i \in 1..Len(m) : m[i][1] = k

(***************************************************************************)
(* The analysis payloads of a session.  A payload is the finished graph    *)
(* the backend sends: the first n nodes of a fixed node list (ids are      *)
(* arbitrary strings, the empty string among them; weights descend) and up *)
(* to MaxLinks links of a ring over the first MaxNodes+1 ids, so that a    *)
(* link may name a node the producer truncated away and a node may have no *)
(* link at all.                                                            *)
(***************************************************************************)
IdList == <<"A", "B", "", "C", "D">>

NIds == MaxNodes + 1

NodeWeight(i) == 5000 - 1000 * i + (IF i % 2 = 1 THEN 234 ELSE 236)

LinkWeight(s, t) == 1000 * s + 10 * t + (IF s < t THEN 4 ELSE 6)

\* the candidate links: a ring over the ids, in alternating directions
LinkPairs ==
    {IF i % 2 = 1 THEN <<i, i + 1>> ELSE <<i + 1, i>> : i \in 1..(NIds - 1)}
    \cup {<<NIds, 1>>}

PairRank(p) == 10 * p[1] + p[2]

LinkSeqs ==
    UNION {{ls \in [1..k -> LinkPairs] :
              \A i \in 1..(k - 1) : PairRank(ls[i]) < PairRank(ls[i + 1])}
           : k \in 0..MaxLinks}

Payloads == {[n |-> n, links |-> ls] : n \in 0..MaxNodes, ls \in LinkSeqs}

\* the first node carries a groupName of its own
PayloadNode(i) ==
    IF i = 1
    THEN [id |-> Str(IdList[i]), weight |-> NodeWeight(i), group |-> i % 2,
          groupName |-> Str("own")]
    ELSE [id |-> Str(IdList[i]), weight |-> NodeWeight(i), group |-> i % 2]

PayloadLink(p) ==
    [source |-> Str(IdList[p[1]]), target |-> Str(IdList[p[2]]),
     weight |-> LinkWeight(p[1], p[2])]

UploadName == "doc.txt"

PayloadGraph(p) ==
    [nodes |-> [i \in 1..p.n |-> PayloadNode(i)],
     links |-> [k \in 1..Len(p.links) |-> PayloadLink(p.links[k])],
     meta |-> [file |-> Str(UploadName), duration |-> Str("1.5s"),
               stats |-> [nodes |-> Num(p.n), links |-> Num(Len(p.links)),
                          groups |-> Num(Min(p.n, 2))]],
     group_names |-> [k \in {"1"} |-> Str("topic")]]

(***************************************************************************)
(* State.                                                                  *)
(*   payload          the graph of the session's analysed document         *)
(*   download, exported   the file last written by an export, and the      *)
(*                    graph that export serialised                         *)
(*   alert            the message the last handler showed ("" for none)    *)
(*   lastImport       which file the last handler imported (NoImport when  *)
(*                    the last handler was not an import)                  *)
(*   lastHandler      the handler that ran last ("" before the first)      *)
(* vanilla page (index.js):                                                *)
(*   globalGraphData  the current graph, Null before the first load        *)
(*   nodeRange        the node-count slider: [max, value]                  *)
(*   statsPanel       what the #stats element shows                        *)
(*   currentFile      window.currentFile                                   *)
(*   scene            the drawn nodes and links with their opacity         *)
(*   highlighted      the node highlightNeighbors last ran on, or Null     *)
(*   neighborIds      the neighborIds set that call computed               *)
(*   panelOpen        whether the context panel is open                    *)
(* React app (App.tsx, Graph):                                             *)
(*   graphData, filteredData, nodeCount, selectedNode, stats, contextOpen  *)
(*                    the useState cells of App                            *)
(*   dom              what the Graph component has drawn                   *)
(*   domNeighborIds   the neighborIds set of Graph's highlight effect      *)
(***************************************************************************)
VARIABLES payload, download, exported, alert, lastImport, lastHandler,
          globalGraphData, nodeRange, statsPanel, currentFile,
          scene, highlighted, neighborIds, panelOpen, simulation,
          graphData, filteredData, nodeCount, selectedNode, stats, contextOpen,
          dom, domNeighborIds, dimensions, graphSim, dragging,
          windowSQL, initSqlJsCalls, loads, dbExport, sqliteBtn, upload, context

envVars == <<payload, download, exported, alert, lastImport, lastHandler>>
vanillaVars == <<globalGraphData, nodeRange, statsPanel, currentFile,
                 scene, highlighted, neighborIds, panelOpen, simulation>>
reactVars == <<graphData, filteredData, nodeCount, selectedNode, stats, contextOpen,
               dom, domNeighborIds, dimensions, graphSim, dragging>>
\* what the page's asynchronous functions hold across their awaits
\* the controls the handlers disable while they run, and each page's
\* upload: where its handler is, the loading indicator and what it shows,
\* the upload button, and whether its socket is open
\* and App's context panel: its title, its content and the ids whose
\* /context request is in flight
uiVars == <<sqliteBtn, upload, context>>
\* what the upload handlers leave alone
engineVars == <<windowSQL, initSqlJsCalls, loads, dbExport, sqliteBtn, context>>
asyncVars == <<windowSQL, initSqlJsCalls, loads, dbExport, uiVars>>

\* no upload running: resetUI() in index.js, setLoading(false) in App.tsx
\* (the buttons are disabled={loading}, the progress is shown while loading)
NoUpload == [pc |-> "idle", loading |-> FALSE, btn |-> "enabled", open |-> FALSE,
             progress |-> ""]
vars == <<envVars, vanillaVars, reactVars, asyncVars>>

NoFile == [kind |-> "none"]
NoImport == [src |-> "none"]
EmptyScene == [nodes |-> <<>>, links |-> <<>>]

\* style("opacity", 1) and style("opacity", 0.1), in tenths
FullOpacity == 10
DimOpacity == 1
\* slider.value = Math.min(200, maxNodes)
DefaultNodeCount == 200

(***************************************************************************)
(* index.js: applyNodeFilter and renderGraph.                              *)
(***************************************************************************)
\* getId / getLabel: (typeof n === 'object' && n.id) ? n.id : n
GetId(n) == IF n.t = "object" /\ Truthy(Get(n, "id")) THEN n.id ELSE n

\* data.nodes.slice(0, limit)
Slice(s, limit) == SubSeq(s, 1, Min(limit, Len(s)))

\* a filter built from node objects the simulation has numbered
FilteredDrawn(g, limit) ==
    LET nodes == [i \in 1..Len(Slice(g.nodes, limit)) |->
                    ("index" :> (i - 1)) @@ g.nodes[i]]
        nodeIds == {nodes[i].id : i \in 1..Len(nodes)}
    IN  [g EXCEPT !.nodes = nodes,
                  !.links = SelectSeq(@, LAMBDA l : l.source \in nodeIds
                                                   /\ l.target \in nodeIds)]

\* the object applyNodeFilter hands to renderGraph
\* nodeIds.has(l.source) || nodeIds.has(l.source.id): the second lookup is of
\* undefined for a raw id and finds nothing.
FilteredGraph(g, limit) ==
    LET nodes == Slice(g.nodes, limit)
        nodeIds == {nodes[i].id : i \in 1..Len(nodes)}
        Has(e) == e \in nodeIds \/ Get(e, "id") \in nodeIds
        links == SelectSeq(g.links, LAMBDA l : Has(l.source) /\ Has(l.target))
    IN  [g EXCEPT !.nodes = nodes, !.links = links]

(***************************************************************************)
(* The force simulation.  alpha is counted in levels: 0 is below alphaMin, *)
(* AlphaFull is 1, ReheatTarget is 0.3; a tick moves alpha one level       *)
(* towards alphaTarget.  The coordinates of a node are not computed: a     *)
(* position is the record of how it came about, the passes that acted on   *)
(* the node object (each with the size it centred on, the alpha it started *)
(* from and its number of ticks) and whether anything moved it since.      *)
(***************************************************************************)
AlphaFull == 3
ReheatTarget == 2
LayoutTicks == 300

\* the sizes a window takes; the vanilla page reads its size once
Sizes == 1..MaxSizes
PageSize == 1

\* d3.forceSimulation(): alpha 1, alphaTarget 0, the timer started
NewSimulation == [alpha |-> AlphaFull, target |-> 0, running |-> TRUE]

\* simulation.stop()
Stop(sim) == [sim EXCEPT !.running = FALSE]

\* n calls of simulation.tick()
TickN(sim, n) ==
    [sim EXCEPT !.alpha = IF @ >= sim.target
                          THEN (IF @ - n >= sim.target THEN @ - n ELSE sim.target)
                          ELSE (IF @ + n <= sim.target THEN @ + n ELSE sim.target)]

Pass(size, sim, ticks) == [size |-> size, alpha |-> sim.alpha, ticks |-> ticks]

\* the position of a node object before a simulation has seen it
Unplaced == [passes |-> <<>>, moved |-> FALSE]

PositionOf(n) == IF "xy" \in DOMAIN n THEN n.xy ELSE Unplaced

\* the position after a pass of the simulation over the node object
Placed(n, size, sim, ticks) ==
    [PositionOf(n) EXCEPT !.passes = Append(@, Pass(size, sim, ticks))]

\* simulation.alpha(1)
ResetAlpha(sim) == [sim EXCEPT !.alpha = AlphaFull]

\* what renderGraph draws: one element per node and per link, at full opacity
\* (forceLink has replaced each link's endpoints by the node objects).
DrawNode(n, sim) ==
    [id |-> n.id, opacity |-> FullOpacity, emphasized |-> FALSE, info |-> Null,
     xy |-> Placed(n, PageSize, sim, LayoutTicks)]
DrawLink(l) ==
    [source |-> GetId(l.source), target |-> GetId(l.target),
     opacity |-> FullOpacity, emphasized |-> FALSE]
Draw(data, sim) ==
    [nodes |-> [i \in 1..Len(data.nodes) |-> DrawNode(data.nodes[i], sim)],
     links |-> [i \in 1..Len(data.links) |-> DrawLink(data.links[i])]]

\* renderGraph(data): globalGraphData = data, the svg is cleared and redrawn
RenderGraph(data) ==
    /\ globalGraphData' = data
    /\ scene' = Draw(data, ResetAlpha(simulation))
    /\ simulation' = TickN(ResetAlpha(simulation), LayoutTicks)
    /\ highlighted' = Null
    /\ neighborIds' = {}

\* applyNodeFilter(val) with a graph loaded
ApplyNodeFilterTo(g, val) == RenderGraph(FilteredGraph(g, val))

\* the #stats element after an upload completes
UploadStats(result) ==
    [file |-> result.meta.file, duration |-> result.meta.duration,
     nodes |-> result.meta.stats.nodes, links |-> result.meta.stats.links]

\* ws.onmessage with status 'completed'
WsCompleted ==
    LET result == PayloadGraph(payload)
        maxNodes == Len(result.nodes)
        value == Min(DefaultNodeCount, maxNodes)
    IN  /\ nodeRange' = [max |-> maxNodes, value |-> value]
        /\ ApplyNodeFilterTo(result, value)
        /\ statsPanel' = UploadStats(result)
        /\ currentFile' = Str(UploadName)
        /\ alert' = ""
        /\ lastImport' = NoImport
        /\ lastHandler' = "ws.onmessage"
        /\ UNCHANGED <<payload, download, exported, panelOpen>>
        /\ upload' = [upload EXCEPT !.vanilla = NoUpload]
        /\ UNCHANGED <<reactVars, engineVars>>

\* the slider moved to val: applyNodeFilter(val)
ApplyNodeFilter(val) ==
    /\ globalGraphData # Null
    /\ nodeRange' = [nodeRange EXCEPT !.value = val]
    /\ ApplyNodeFilterTo(globalGraphData, val)
    /\ alert' = ""
    /\ lastImport' = NoImport
    /\ lastHandler' = "applyNodeFilter"
    /\ UNCHANGED <<payload, download, exported, statsPanel, currentFile, panelOpen>>
    /\ UNCHANGED <<reactVars, asyncVars>>

(***************************************************************************)
(* index.js: highlightNeighbors, resetHighlight, background click.         *)
(***************************************************************************)
Touches(l, id) == l.source = id \/ l.target = id

\* const neighborIds: the endpoints of the links connected to d
NeighborIdsOf(links, id) ==
    UNION {{links[i].source, links[i].target} :
             i \in {j \in 1..Len(links) : Touches(links[j], id)}}

\* resetHighlight()
ResetScene(sc) ==
    [nodes |-> [i \in 1..Len(sc.nodes) |->
                  [sc.nodes[i] EXCEPT !.opacity = FullOpacity, !.emphasized = FALSE,
                                      !.info = Null]],
     links |-> [i \in 1..Len(sc.links) |->
                  [sc.links[i] EXCEPT !.opacity = FullOpacity, !.emphasized = FALSE]]]

\* `${d.group}`
GroupText(d) == IF "group" \in DOMAIN d THEN ToString(d.group) ELSE "undefined"

\* `Group ${d.group}`
GroupFallback(d) == Str("Group " \o GroupText(d))

\* names[d.group]: a property of names under the key the group converts to
NameOfGroup(names, d) == Get(names, GroupText(d))

\* highlightNeighbors: let groupName
GroupName(d, graph) ==
    IF Truthy(Get(d, "groupName")) THEN d.groupName
    ELSE IF "group_names" \in DOMAIN graph
    THEN OrElse(NameOfGroup(graph.group_names, d), GroupFallback(d))
    ELSE GroupFallback(d)

\* the datum of the drawn node with this id
Datum(nodes, id) == nodes[CHOOSE i \in 1..Len(nodes) : nodes[i].id = id]

\* the info label: neighbour count and group name
InfoLabel(count, groupName) == [neighbors |-> count, group |-> groupName]

\* Math.max(0, neighborIds.size - 1)
NeighborCount(ids) == IF Cardinality(ids) > 0 THEN Cardinality(ids) - 1 ELSE 0

\* highlightNeighbors(d): dim everything, then restore the connected links and
\* the nodes in neighborIds; the clicked node gets the emphasised circle and
\* the info label.
HighlightScene(sc, id, graph) ==
    LET ids == NeighborIdsOf(sc.links, id)
    IN  [nodes |-> [i \in 1..Len(sc.nodes) |->
                      [id |-> sc.nodes[i].id,
                       xy |-> sc.nodes[i].xy,
                       opacity |-> IF sc.nodes[i].id \in ids THEN FullOpacity
                                   ELSE DimOpacity,
                       emphasized |-> sc.nodes[i].id = id,
                       info |-> IF sc.nodes[i].id = id
                                THEN InfoLabel(NeighborCount(ids),
                                               GroupName(Datum(graph.nodes, id), graph))
                                ELSE Null]],
         links |-> [i \in 1..Len(sc.links) |->
                      [sc.links[i] EXCEPT
                         !.opacity = IF Touches(sc.links[i], id) THEN FullOpacity
                                     ELSE DimOpacity,
                         !.emphasized = Touches(sc.links[i], id)]]]

\* dblclick on the i-th drawn node: loadContext(d.id); highlightNeighbors(d)
NodeDblClick(i) ==
    /\ i \in 1..Len(scene.nodes)
    /\ LET id == scene.nodes[i].id
       IN  /\ scene' = HighlightScene(ResetScene(scene), id, globalGraphData)
           /\ neighborIds' = NeighborIdsOf(scene.links, id)
           /\ highlighted' = id
    /\ panelOpen' = TRUE
    /\ alert' = ""
    /\ lastImport' = NoImport
    /\ lastHandler' = "dblclick"
    /\ UNCHANGED <<payload, download, exported,
                   globalGraphData, nodeRange, statsPanel, currentFile, simulation>>
    /\ UNCHANGED <<reactVars, asyncVars>>

\* click on the svg background: closeContext(); resetHighlight()
BackgroundClick ==
    /\ globalGraphData # Null
    /\ scene' = ResetScene(scene)
    /\ highlighted' = Null
    /\ neighborIds' = {}
    /\ panelOpen' = FALSE
    /\ alert' = ""
    /\ lastImport' = NoImport
    /\ lastHandler' = "click"
    /\ UNCHANGED <<payload, download, exported,
                   globalGraphData, nodeRange, statsPanel, currentFile, simulation>>
    /\ UNCHANGED <<reactVars, asyncVars>>

(***************************************************************************)
(* Files.  A workbook is its named sheets, each the rows sheet_to_json     *)
(* returns (one object per row, keyed by the header cells); a database is  *)
(* its tables, each with its columns and rows; a JSON file is its text.    *)
(***************************************************************************)
\* Number(x.toFixed(2)) of a weight in thousandths: the nearest hundredth
\* (no weight of the model lies halfway between two hundredths)
ToFixed2(w) == ((w + 5) \div 10) * 10

\* the largest count that appears in a Meta table of the model
MetaCountMax == MaxNodes + MaxLinks + 1

\* n.toString() of a count
NumToString(x) == Str(ToString(x.v))

\* parseInt(x): a number is itself, a string of digits is its value,
\* anything else (undefined, null, other text) is NaN
ParseInt(x) ==
    CASE x.t = "number" -> x
      [] x.t = "string" ->
           IF \E n \in 0..MetaCountMax : ToString(n) = x.v
           THEN Num(CHOOSE n \in 0..MetaCountMax : ToString(n) = x.v)
           ELSE NaN
      [] OTHER -> NaN

\* a row object {key, value}; json_to_sheet writes no cell for an undefined
\* value and sheet_to_json then returns the row without that property
KeyValue(k, v) ==
    IF v = Undefined THEN [key |-> Str(k)] ELSE [key |-> Str(k), value |-> v]

DownloadJson == "analysis_result.json"
DownloadXlsx == "analysis_result.xlsx"
DownloadDb == "analysis_result.db"

(***************************************************************************)
(* index.js: exportData (JSON).  The text is the member list of every      *)
(* object, in property order; a property whose value is undefined is not   *)
(* written.                                                                *)
(***************************************************************************)
KeyOrder == <<"nodes", "links", "meta", "group_names",
              "id", "weight", "group", "groupName", "index",
              "source", "target", "value">>

\* JSON.stringify of one object whose property values are already text
Members(o) ==
    LET keys == SelectSeq(KeyOrder, LAMBDA k : k \in DOMAIN o)
    IN  [i \in 1..Len(keys) |-> <<keys[i], o[keys[i]]>>]

\* the object JSON.parse builds from a member list (a repeated key keeps
\* its last value)
FromMembers(ms) ==
    [k \in {ms[i][1] : i \in 1..Len(ms)} |->
        ms[CHOOSE i \in 1..Len(ms) :
             ms[i][1] = k /\ \A j \in 1..Len(ms) : ms[j][1] = k => j <= i][2]]

\* a node or link object without its undefined-valued tagged properties
Defined(o) ==
    [k \in {k \in DOMAIN o : k \in {"weight", "group", "index", "value"} \/ o[k] # Undefined}
        |-> o[k]]

\* a stringify that writes every weight with two decimals
StringifyRounded(items) ==
    [i \in 1..Len(items) |-> Members(Defined([items[i] EXCEPT !.weight = ToFixed2(@)]))]

StringifyItems(items) ==
    [i \in 1..Len(items) |-> Members(Defined(items[i]))]

ParseItems(texts) == [i \in 1..Len(texts) |-> FromMembers(texts[i])]

\* JSON.stringify(graph, null, 2)
JsonStringify(g) ==
    LET ArrayText(k) == IF k \in {"nodes", "links"} THEN StringifyItems(g[k]) ELSE g[k]
        keys == SelectSeq(KeyOrder, LAMBDA k : k \in DOMAIN g)
    IN  [valid |-> TRUE, members |-> [i \in 1..Len(keys) |-> <<keys[i], ArrayText(keys[i])>>]]

\* JSON.parse(text): the object, or a SyntaxError
JsonParse(text) ==
    IF ~text.valid THEN [ok |-> FALSE, error |-> "SyntaxError"]
    ELSE LET o == FromMembers(text.members)
         IN  [ok |-> TRUE,
              graph |-> [k \in DOMAIN o |->
                           IF k \in {"nodes", "links"} THEN ParseItems(o[k]) ELSE o[k]]]

JsonFile(name, text) == [kind |-> "json", name |-> name, text |-> text]

(***************************************************************************)
(* index.js: exportDataToExcel.                                            *)
(***************************************************************************)
ExcelNodeRow(n) == [id |-> n.id, weight |-> ToFixed2(n.weight)]

ExcelLinkRow(l) ==
    [source |-> GetId(l.source), target |-> GetId(l.target),
     weight |-> ToFixed2(l.weight)]

\* meta.stats ? meta.stats.nodes : 0
MetaCount(meta, k) == IF "stats" \in DOMAIN meta THEN Get(meta.stats, k) ELSE Num(0)

ExcelMetaRows(meta) ==
    <<KeyValue("filename", Get(meta, "file")),
      KeyValue("duration", Get(meta, "duration")),
      KeyValue("total_nodes", MetaCount(meta, "nodes")),
      KeyValue("total_links", MetaCount(meta, "links"))>>

ExcelWorkbook(g) ==
    LET nodes == [i \in 1..Len(g.nodes) |-> ExcelNodeRow(g.nodes[i])]
        links == [i \in 1..Len(g.links) |-> ExcelLinkRow(g.links[i])]
    IN  IF "meta" \in DOMAIN g
        THEN [Nodes |-> nodes, Links |-> links, Meta |-> ExcelMetaRows(g.meta)]
        ELSE [Nodes |-> nodes, Links |-> links]

XlsxFile(name, sheets) == [kind |-> "xlsx", name |-> name, sheets |-> sheets]

(***************************************************************************)
(* index.js: exportDataToSQLite.                                           *)
(***************************************************************************)
\* nodeMap: label -> i + 1, one set() per node in iteration order
NodeMap(nodes) == [i \in 1..Len(nodes) |-> <<nodes[i].id, Num(i)>>]

SqlNodeRows(nodes) ==
    [i \in 1..Len(nodes) |->
       [id |-> MapGet(NodeMap(nodes), nodes[i].id), label |-> nodes[i].id,
        weight |-> nodes[i].weight]]

\* a link row is inserted only if (sId && tId)
SqlLinkRows(g) ==
    LET nodeMap == NodeMap(g.nodes)
        rows == [i \in 1..Len(g.links) |->
                   [source |-> MapGet(nodeMap, GetId(g.links[i].source)),
                    target |-> MapGet(nodeMap, GetId(g.links[i].target)),
                    weight |-> g.links[i].weight]]
    IN  SelectSeq(rows, LAMBDA r : Truthy(r.source) /\ Truthy(r.target))

\* a bound parameter: undefined has no SQL type; where the engine accepts it
\* the column holds NULL
Bound(v) == IF v = Undefined THEN Null ELSE v

SqlMetaRows(meta) ==
    <<[key |-> Str("filename"), value |-> Bound(Get(meta, "file"))],
      [key |-> Str("duration"), value |-> Bound(Get(meta, "duration"))]>>
    \o (IF "stats" \in DOMAIN meta
        THEN <<[key |-> Str("total_nodes"), value |-> NumToString(meta.stats.nodes)],
               [key |-> Str("total_links"), value |-> NumToString(meta.stats.links)]>>
        ELSE <<>>)

NodeColumns == <<"id", "label", "weight">>
LinkColumns == <<"source", "target", "weight">>
MetaColumns == <<"key", "value">>

Table(columns, rows) == [columns |-> columns, rows |-> rows]

SqliteDatabase(g) ==
    [nodes |-> Table(NodeColumns, SqlNodeRows(g.nodes)),
     links |-> Table(LinkColumns, SqlLinkRows(g)),
     meta |-> Table(MetaColumns, IF "meta" \in DOMAIN g THEN SqlMetaRows(g.meta) ELSE <<>>)]

DbFile(name, tables) == [kind |-> "db", name |-> name, tables |-> tables]

(***************************************************************************)
(* index.js: importAndVisualize, the decoders.  Each returns               *)
(* [ok |-> TRUE, graph |-> {nodes, links, meta}] or the error it alerts.   *)
(***************************************************************************)
\* the meta object both tabular decoders rebuild from the key/value rows
\* (metaObj), or synthesize when there is none
\* a meta counting the link rows of the file rather than the links read
SynthMetaRows(name, nodes, links) ==
    [file |-> Str(name),
     stats |-> [nodes |-> Num(Len(nodes)), links |-> Num(Len(payload.links))]]

SynthMeta(name, nodes, links) ==
    [file |-> Str(name),
     stats |-> [nodes |-> Num(Len(nodes)), links |-> Num(Len(links))]]

RebuiltMeta(rows, name, nodes, links) ==
    LET metaObj == [i \in 1..Len(rows) |-> <<rows[i].key, Get(rows[i], "value")>>]
    IN  [file |-> OrElse(MapGet(metaObj, Str("filename")), Str(name)),
         duration |-> OrElse(MapGet(metaObj, Str("duration")), Str("N/A")),
         stats |-> [nodes |-> OrElse(ParseInt(MapGet(metaObj, Str("total_nodes"))),
                                      Num(Len(nodes))),
                    links |-> OrElse(ParseInt(MapGet(metaObj, Str("total_links"))),
                                      Num(Len(links)))]]

\* a node read that takes the id column in both schemas
RowIdNodes(rows, hasLabel) ==
    [i \in 1..Len(rows) |-> [id |-> Get(rows[i], "id"), weight |-> rows[i].weight]]

\* a map that is the identity in both schemas
IdentityMap(rows, hasLabel) ==
    [i \in 1..Len(rows) |-> <<Get(rows[i], "id"), Get(rows[i], "id")>>]

\* nodes and idToLabelMap from the node rows; hasLabel selects the schema
DecodedNodes(rows, hasLabel) ==
    [i \in 1..Len(rows) |->
       [id |-> IF hasLabel THEN Get(rows[i], "label") ELSE Get(rows[i], "id"),
        weight |-> rows[i].weight]]

IdToLabelMap(rows, hasLabel) ==
    [i \in 1..Len(rows) |->
       <<Get(rows[i], "id"),
         IF hasLabel THEN Get(rows[i], "label") ELSE Get(rows[i], "id")>>]

\* the link rows read through the map; a row is kept only if
\* (sourceLabel && targetLabel)
DecodedLinks(rows, idToLabelMap) ==
    LET resolved == [i \in 1..Len(rows) |->
                       [source |-> MapGet(idToLabelMap, Get(rows[i], "source")),
                        target |-> MapGet(idToLabelMap, Get(rows[i], "target")),
                        weight |-> rows[i].weight]]
    IN  SelectSeq(resolved, LAMBDA l : Truthy(l.source) /\ Truthy(l.target))

\* the .db / .sqlite / .sqlite3 branch
SqliteDecode(f) ==
    IF "nodes" \notin DOMAIN f.tables
    THEN [ok |-> FALSE, error |-> "SQLite import failed: reading the nodes table failed"]
    ELSE IF "links" \notin DOMAIN f.tables
    THEN [ok |-> FALSE, error |-> "SQLite import failed: reading the links table failed"]
    ELSE
      LET hasLabel == \E i \in 1..Len(f.tables.nodes.columns) :
                         f.tables.nodes.columns[i] = "label"
          nodes == DecodedNodes(f.tables.nodes.rows, hasLabel)
          map == IdToLabelMap(f.tables.nodes.rows, hasLabel)
          links == DecodedLinks(f.tables.links.rows, map)
          meta == IF "meta" \in DOMAIN f.tables /\ Len(f.tables.meta.rows) > 0
                  THEN RebuiltMeta(f.tables.meta.rows, f.name, nodes, links)
                  ELSE SynthMeta(f.name, nodes, links)
      IN  [ok |-> TRUE, graph |-> [nodes |-> nodes, links |-> links, meta |-> meta]]

\* the .xlsx / .xlsb branch
XlsxDecode(f) ==
    IF "Nodes" \notin DOMAIN f.sheets
    THEN [ok |-> FALSE, error |-> "Excel import failed: no 'Nodes' sheet"]
    ELSE IF "Links" \notin DOMAIN f.sheets
    THEN [ok |-> FALSE, error |-> "Excel import failed: no 'Links' sheet"]
    ELSE
      LET rawNodes == f.sheets.Nodes
          isNewSchema == Len(rawNodes) > 0 /\ "label" \in DOMAIN rawNodes[1]
          nodes == DecodedNodes(rawNodes, isNewSchema)
          map == IdToLabelMap(rawNodes, isNewSchema)
          links == DecodedLinks(f.sheets.Links, map)
          meta == IF "Meta" \in DOMAIN f.sheets
                  THEN RebuiltMeta(f.sheets.Meta, f.name, nodes, links)
                  ELSE SynthMeta(f.name, nodes, links)
      IN  [ok |-> TRUE, graph |-> [nodes |-> nodes, links |-> links, meta |-> meta]]

\* the JSON branch, with processResult's check of nodes and links
JsonDecode(f) ==
    LET parsed == JsonParse(f.text)
    IN  IF ~parsed.ok THEN [ok |-> FALSE, error |-> "JSON import failed: SyntaxError"]
        ELSE IF "nodes" \notin DOMAIN parsed.graph \/ "links" \notin DOMAIN parsed.graph
        THEN [ok |-> FALSE, error |-> "JSON import failed: nodes or links missing"]
        ELSE parsed

\* the names files have here, each with the text after its last dot
Extension(name) ==
    CASE name \in {"analysis_result.json", "analysis_result_.json", "graph.json"} -> "json"
      [] name \in {"analysis_result.xlsx", "graph.xlsx"} -> "xlsx"
      [] name = "graph.xlsb" -> "xlsb"
      [] name \in {"analysis_result.db", "graph.db"} -> "db"
      [] name = "GRAPH.DB" -> "DB"
      [] name = "graph.sqlite" -> "sqlite"
      [] name = "graph.sqlite3" -> "sqlite3"

\* file.name.match(/\.(db|sqlite|sqlite3)$/i)
MatchesSqlite(name) == Extension(name) \in {"db", "DB", "sqlite", "sqlite3"}

\* file.name.match(/\.xls(x|b)$/i)
MatchesExcel(name) == Extension(name) \in {"xlsx", "xlsb"}

\* the decoder the file's name selects
Decode(f) ==
    CASE MatchesSqlite(f.name) -> SqliteDecode(f)
      [] MatchesExcel(f.name) -> XlsxDecode(f)
      [] OTHER -> JsonDecode(f)

(***************************************************************************)
(* The files a session can import: the file the last export wrote, and     *)
(* files of other producers that hold the session's payload in either      *)
(* schema variant (Legacy: the id column holds the label; Current: the id  *)
(* column holds the 1-based surrogate and a label column the label), with  *)
(* or without one of the tables, and JSON texts with or without the keys.  *)
(***************************************************************************)
ForeignNodeRows(p, schema) ==
    [i \in 1..p.n |->
       IF schema = "current"
       THEN [id |-> Num(i), label |-> Str(IdList[i]), weight |-> NodeWeight(i)]
       ELSE [id |-> Str(IdList[i]), weight |-> NodeWeight(i)]]

ForeignLinkRows(p, schema) ==
    [k \in 1..Len(p.links) |->
       LET s == p.links[k][1]
           t == p.links[k][2]
       IN  IF schema = "current"
           THEN [source |-> Num(s), target |-> Num(t), weight |-> LinkWeight(s, t)]
           ELSE [source |-> Str(IdList[s]), target |-> Str(IdList[t]),
                 weight |-> LinkWeight(s, t)]]

\* a function without one of its arguments
Without(f, k) == [x \in DOMAIN f \ {k} |-> f[x]]

ForeignWorkbook(p, schema, missing) ==
    Without([Nodes |-> ForeignNodeRows(p, schema),
             Links |-> ForeignLinkRows(p, schema),
             Meta |-> ExcelMetaRows(PayloadGraph(p).meta)], missing)

ForeignDatabase(p, schema, missing) ==
    Without([nodes |-> Table(IF schema = "current" THEN NodeColumns
                             ELSE <<"id", "weight">>,
                             ForeignNodeRows(p, schema)),
             links |-> Table(LinkColumns, ForeignLinkRows(p, schema)),
             meta |-> Table(MetaColumns, SqlMetaRows(PayloadGraph(p).meta))], missing)

ForeignJson(p, variant) ==
    LET text == JsonStringify(PayloadGraph(p))
    IN  CASE variant = "invalid" -> [valid |-> FALSE]
          [] variant = "full" -> text
          [] OTHER -> [text EXCEPT
                         !.members = SelectSeq(text.members, LAMBDA m : m[1] # variant)]

TabularChoices ==
    {[src |-> "foreign", kind |-> k, schema |-> s, missing |-> ""] :
        k \in {"xlsx", "db"}, s \in {"legacy", "current"}}
    \cup {[src |-> "foreign", kind |-> "xlsx", schema |-> "legacy", missing |-> m] :
            m \in {"Nodes", "Links", "Meta"}}
    \cup {[src |-> "foreign", kind |-> "db", schema |-> "current", missing |-> m] :
            m \in {"nodes", "links", "meta"}}

JsonChoices ==
    {[src |-> "foreign", kind |-> "json", variant |-> v] :
        v \in {"full", "nodes", "links", "invalid"}}

FromDownload == [src |-> "download"]

\* well-formed files of other producers under each name the import inputs
\* take; the content is of the format the name announces
ImportNames ==
    {"graph.json", "graph.xlsx", "graph.xlsb", "graph.db", "GRAPH.DB",
     "graph.sqlite", "graph.sqlite3"}

NamedChoices == {[src |-> "named", name |-> n] : n \in ImportNames}

NamedFile(p, name) ==
    CASE Extension(name) \in {"db", "DB", "sqlite", "sqlite3"} ->
           DbFile(name, ForeignDatabase(p, "current", ""))
      [] Extension(name) \in {"xlsx", "xlsb"} ->
           XlsxFile(name, ForeignWorkbook(p, "current", ""))
      [] OTHER -> JsonFile(name, ForeignJson(p, "full"))

FileOf(d) ==
    CASE d.src = "download" -> download
      [] d.src = "named" -> NamedFile(payload, d.name)
      [] d.kind = "xlsx" ->
           XlsxFile("graph.xlsx", ForeignWorkbook(payload, d.schema, d.missing))
      [] d.kind = "db" ->
           DbFile("graph.db", ForeignDatabase(payload, d.schema, d.missing))
      [] OTHER -> JsonFile("graph.json", ForeignJson(payload, d.variant))

(***************************************************************************)
(* index.js: the export handlers.                                          *)
(***************************************************************************)
Exports(handler, file) ==
    /\ globalGraphData # Null
    /\ download' = file
    /\ exported' = globalGraphData
    /\ alert' = ""
    /\ lastImport' = NoImport
    /\ lastHandler' = handler
    /\ UNCHANGED payload
    /\ UNCHANGED vanillaVars
    /\ UNCHANGED <<reactVars, asyncVars>>

\* exportData()
ExportData == Exports("exportData", JsonFile(DownloadJson, JsonStringify(globalGraphData)))

\* exportDataToExcel()
ExportDataToExcel == Exports("exportDataToExcel", XlsxFile(DownloadXlsx, ExcelWorkbook(globalGraphData)))

\* exportDataToSQLite(); every graph of a session carries meta.file and
\* meta.duration, so every bound value is defined
ExportDataToSQLite == Exports("exportDataToSQLite", DbFile(DownloadDb, SqliteDatabase(globalGraphData)))

(***************************************************************************)
(* index.js: importAndVisualize and processResult.                         *)
(***************************************************************************)
\* (result.meta && result.meta.file) ? result.meta.file : file.name
ContextFile(result, name) ==
    IF "meta" \in DOMAIN result /\ Truthy(Get(result.meta, "file"))
    THEN result.meta.file ELSE Str(name)

\* the #stats element after an import
ImportStats(result, name) ==
    IF "meta" \in DOMAIN result /\ "stats" \in DOMAIN result.meta
    THEN [file |-> Get(result.meta, "file"),
          duration |-> OrElse(Get(result.meta, "duration"), Str("N/A")),
          nodes |-> Get(result.meta.stats, "nodes"),
          links |-> Get(result.meta.stats, "links")]
    ELSE [file |-> Str(name), nodes |-> Num(Len(result.nodes)),
          links |-> Num(Len(result.links))]

\* processResult(result) once nodes and links are known to be present
ProcessResult(result, name) ==
    LET maxNodes == Len(result.nodes)
        value == Min(DefaultNodeCount, maxNodes)
    IN  /\ nodeRange' = [max |-> maxNodes, value |-> value]
        /\ currentFile' = ContextFile(result, name)
        /\ statsPanel' = ImportStats(result, name)
        /\ ApplyNodeFilterTo(result, value)
        /\ alert' = "Import succeeded"

\* a rejection that has already cleared the graph
RejectAfterClearing(error) ==
    /\ alert' = error
    /\ globalGraphData' = Null
    /\ scene' = EmptyScene
    /\ UNCHANGED <<nodeRange, statsPanel, currentFile, highlighted, neighborIds,
                   simulation>>

\* the catch blocks: the error is alerted, nothing else is touched
RejectImport(error) ==
    /\ alert' = error
    /\ UNCHANGED <<globalGraphData, nodeRange, statsPanel, currentFile,
                   scene, highlighted, neighborIds, simulation>>

\* importAndVisualize() on the chosen file
ImportAndVisualize(d) ==
    /\ d.src = "download" => download # NoFile
    /\ LET f == FileOf(d)
           r == Decode(f)
       IN  IF r.ok
           THEN ProcessResult(r.graph, f.name)
           ELSE RejectImport(r.error)
    /\ lastImport' = d
    /\ lastHandler' = "importAndVisualize"
    /\ UNCHANGED <<payload, download, exported, panelOpen>>
    /\ UNCHANGED <<reactVars, asyncVars>>

(***************************************************************************)
(* App.tsx and the Graph component (Sidebar.tsx).                          *)
(***************************************************************************)
\* (typeof l.source === 'object') ? l.source.id : l.source
ReactId(e) == IF e.t = "object" THEN Get(e, "id") ELSE e

\* a filter that keeps a link whose source is shown
FilterBySource(data, limit) ==
    LET nodes == Slice(data.nodes, limit)
        nodeIds == {nodes[i].id : i \in 1..Len(nodes)}
    IN  [data EXCEPT !.nodes = nodes,
                     !.links = SelectSeq(@, LAMBDA l : ReactId(l.source) \in nodeIds)]

\* filterData(data, limit) for data with nodes and links
FilterData(data, limit) ==
    LET nodes == Slice(data.nodes, limit)
        nodeIds == {nodes[i].id : i \in 1..Len(nodes)}
        links == SelectSeq(data.links,
                           LAMBDA l : ReactId(l.source) \in nodeIds
                                      /\ ReactId(l.target) \in nodeIds)
    IN  [data EXCEPT !.nodes = nodes, !.links = links]

\* the node forceLink finds for an id (the last node carrying it)
FindNode(nodes, id) ==
    nodes[CHOOSE i \in 1..Len(nodes) :
            nodes[i].id = id /\ \A j \in 1..Len(nodes) : nodes[j].id = id => j <= i]

\* forceLink: an endpoint that is not an object becomes the node object
Resolve(e, nodes) ==
    IF e.t = "object" THEN e ELSE ("t" :> "object") @@ FindNode(nodes, e)

\* an endpoint after the node objects changed: it is a node object, or is
\* made one
Endpoint(e, nodes) ==
    Resolve(IF e.t = "object" THEN e.id ELSE e, nodes)

\* a property written into an object
Write(o, k, v) == (k :> v) @@ [j \in DOMAIN o \ {k} |-> o[j]]

\* the links of data with their endpoints the node objects of nodes
Relinked(data, nodes) ==
    [k \in 1..Len(data.links) |->
       Write([data.links[k] EXCEPT !.source = Endpoint(@, nodes),
                                   !.target = Endpoint(@, nodes)],
             "index", k - 1)]

\* Graph's layout effect on data, in place, at a window size: a new
\* simulation numbers the nodes and links, resolves the link endpoints and
\* moves every node through 300 ticks from where the node object is
LayoutAt(data, size) ==
    LET nodes == [i \in 1..Len(data.nodes) |->
                    Write(Write(data.nodes[i], "index", i - 1),
                          "xy", Placed(data.nodes[i], size, Stop(NewSimulation),
                                       LayoutTicks))]
    IN  [data EXCEPT !.nodes = nodes, !.links = Relinked(data, nodes)]

Layout(data) == LayoutAt(data, dimensions)

\* the simulation the layout effect leaves behind
Settled == TickN(Stop(NewSimulation), LayoutTicks)

NoSimulation == [alpha |-> 0, target |-> 0, running |-> FALSE]

NoDrag == [node |-> 0, at |-> 0]

\* Graph's highlight effect: the neighborIds set
HighlightNeighborIds(data, d) ==
    {d.id}
    \cup {data.links[k].target.id : k \in {k \in 1..Len(data.links) :
                                             data.links[k].source.id = d.id}}
    \cup {data.links[k].source.id : k \in {k \in 1..Len(data.links) :
                                             data.links[k].target.id = d.id}}

\* Graph's highlight effect (and handleNodeClick): let groupName
ReactGroupName(d, data) ==
    IF Truthy(Get(d, "groupName")) THEN d.groupName
    ELSE IF "group_names" \in DOMAIN data
    THEN OrElse(NameOfGroup(data.group_names, d),
                OrElse(NameOfGroup(data.group_names, d), GroupFallback(d)))
    ELSE Str("Unknown")

\* what Graph has drawn after both effects ran
GraphDom(data, d) ==
    LET nb == IF d = Null THEN {} ELSE HighlightNeighborIds(data, d)
        NodeEl(n) ==
            [id |-> n.id,
             opacity |-> IF d = Null \/ n.id \in nb \/ n.id = d.id
                         THEN FullOpacity ELSE DimOpacity,
             emphasized |-> d # Null /\ n.id = d.id,
             info |-> IF d # Null /\ n.id = d.id
                      THEN InfoLabel(NeighborCount(nb), ReactGroupName(d, data))
                      ELSE Null]
        Hit(l) == d # Null /\ (l.source.id = d.id \/ l.target.id = d.id)
        LinkEl(l) ==
            [source |-> l.source.id, target |-> l.target.id,
             opacity |-> IF d = Null \/ Hit(l) THEN FullOpacity ELSE DimOpacity,
             emphasized |-> Hit(l)]
    IN  [nodes |-> [i \in 1..Len(data.nodes) |-> NodeEl(data.nodes[i])],
         links |-> [k \in 1..Len(data.links) |-> LinkEl(data.links[k])]]

\* App's render reads graphData?.nodes.length: it throws, and React unmounts
\* the tree, when graphData is an object without nodes
AppRenders(gd) == gd = Null \/ "nodes" \in DOMAIN gd

\* the document after React has rendered the state and run the effects;
\* laidOut: fd is a new object, so the layout effect has stopped the old
\* simulation and run a new one
Rendered(gd, fd, sel, laidOut) ==
    /\ dom' = IF AppRenders(gd) /\ fd # Null THEN GraphDom(fd, sel) ELSE EmptyScene
    /\ domNeighborIds' = IF AppRenders(gd) /\ fd # Null /\ sel # Null
                         THEN HighlightNeighborIds(fd, sel) ELSE {}
    /\ graphSim' = IF ~AppRenders(gd) THEN Stop(graphSim)
                   ELSE IF laidOut THEN Settled ELSE graphSim
    /\ dragging' = IF ~AppRenders(gd) \/ laidOut THEN NoDrag ELSE dragging

\* the context panel before any click
NoContext == [title |-> Null, content |-> "", of |-> Null, pending |-> {}]

\* graphData?.meta?.file || graphData?.file is truthy
HasFilename(gd) ==
    /\ gd # Null
    /\ \/ "meta" \in DOMAIN gd /\ Truthy(Get(gd.meta, "file"))
       \/ Truthy(Get(gd, "file"))

\* handleNodeClick(node) up to its await: the title is the node's, the
\* content the loading notice, and the /context request for the node is
\* sent; answered tells whether the server will ever settle it (fetch has no
\* timeout, a request the server never answers stays pending for good)
Requested(c, gd, node, answered) ==
    IF HasFilename(gd)
    THEN [title |-> node.id, content |-> "loading", of |-> Null,
          pending |-> IF answered THEN c.pending \cup {node.id} ELSE c.pending]
    ELSE [title |-> node.id, content |-> "no filename", of |-> Null,
          pending |-> c.pending]

ReactStep(handler, message, import) ==
    /\ alert' = message
    /\ lastImport' = import
    /\ lastHandler' = handler
    /\ upload' = IF handler = "ws.onmessage"
                 THEN [upload EXCEPT !.react = NoUpload] ELSE upload
    /\ IF handler \in {"handleNodeClick", "handleNodeClick.resumed"}
       THEN TRUE ELSE context' = context
    /\ UNCHANGED dimensions
    /\ UNCHANGED <<payload, download, exported>>
    /\ UNCHANGED <<vanillaVars, windowSQL, initSqlJsCalls, loads, dbExport, sqliteBtn>>

\* ws.onmessage with status 'completed'
HandleUploadCompleted ==
    LET result == PayloadGraph(payload)
        initialCount == Min(DefaultNodeCount, Len(result.nodes))
        shown == Layout(FilterData(result, initialCount))
    IN  /\ AppRenders(graphData)
        /\ graphData' = result
        /\ stats' = result.meta.stats
        /\ nodeCount' = initialCount
        /\ filteredData' = shown
        /\ Rendered(result, shown, selectedNode, TRUE)
        /\ UNCHANGED <<selectedNode, contextOpen>>
        /\ ReactStep("ws.onmessage", "", NoImport)

\* the range input's min="20" and step="10", scaled to the payload sizes
SliderMin == 1
SliderStep == 1

\* the values the range input can report for a graph (min..max by step)
SliderValues(gd) ==
    {v \in SliderMin..Len(gd.nodes) : (v - SliderMin) % SliderStep = 0}

\* handleNodeRangeChange(val); the slider exists only while graphData is set.
\* filterData throws on a graph without links after setNodeCount was called.
HandleNodeRangeChange(val) ==
    /\ AppRenders(graphData)
    /\ graphData # Null
    /\ val \in SliderValues(graphData)
    /\ nodeCount' = val
    /\ IF "links" \in DOMAIN graphData
       THEN LET shown == Layout(FilterData(graphData, val))
            IN  /\ filteredData' = shown
                /\ Rendered(graphData, shown, selectedNode, TRUE)
       ELSE /\ UNCHANGED filteredData
            /\ Rendered(graphData, filteredData, selectedNode, FALSE)
    /\ UNCHANGED <<graphData, stats, selectedNode, contextOpen>>
    /\ ReactStep("handleNodeRangeChange", "", NoImport)

\* a click whose selection also re-runs the layout effect
ClickRelayout(i, answered) ==
    /\ AppRenders(graphData)
    /\ filteredData # Null
    /\ i \in 1..Len(filteredData.nodes)
    /\ LET shown == LayoutAt(filteredData, dimensions)
       IN  /\ filteredData' = shown
           /\ selectedNode' = shown.nodes[i]
           /\ Rendered(graphData, shown, shown.nodes[i], TRUE)
           /\ context' = Requested(context, graphData, shown.nodes[i], answered)
    /\ contextOpen' = TRUE
    /\ UNCHANGED <<graphData, nodeCount, stats>>
    /\ ReactStep("handleNodeClick", "", NoImport)

\* handleNodeClick(node) on the i-th drawn node, up to its await
HandleNodeClick(i, answered) ==
    /\ AppRenders(graphData)
    /\ filteredData # Null
    /\ i \in 1..Len(filteredData.nodes)
    /\ selectedNode' = filteredData.nodes[i]
    /\ contextOpen' = TRUE
    /\ context' = Requested(context, graphData, filteredData.nodes[i], answered)
    /\ Rendered(graphData, filteredData, filteredData.nodes[i], FALSE)
    /\ UNCHANGED <<graphData, filteredData, nodeCount, stats>>
    /\ ReactStep("handleNodeClick", "", NoImport)

\* handleBackgroundClick()
HandleBackgroundClick ==
    /\ AppRenders(graphData)
    /\ filteredData # Null
    /\ selectedNode' = Null
    /\ contextOpen' = FALSE
    /\ Rendered(graphData, filteredData, Null, FALSE)
    /\ UNCHANGED <<graphData, filteredData, nodeCount, stats>>
    /\ ReactStep("handleBackgroundClick", "", NoImport)

\* handleNodeClick(node) after its await, for the request sent for the node
\* id: the details of that node become the content when the response is
\* usable, the error notice when fetch, res.json() or d.sentences throws.
\* Nothing compares the node with the current selection or title. (The
\* requests in flight are a set: two for the same id count as one.)
ContextResolved(id, ok) ==
    /\ AppRenders(graphData)
    /\ id \in context.pending
    /\ context' = [context EXCEPT !.pending = @ \ {id},
                                  !.content = IF ok THEN "details" ELSE "error",
                                  !.of = IF ok THEN id ELSE Null]
    /\ UNCHANGED reactVars
    /\ ReactStep("handleNodeClick.resumed", "", NoImport)

\* handleDeleteNode() with a node selected (the button exists only then)
HandleDeleteNode ==
    /\ AppRenders(graphData)
    /\ selectedNode # Null
    /\ graphData # Null
    /\ IF "links" \in DOMAIN graphData
       THEN LET newGraphData ==
                   [graphData EXCEPT
                      !.nodes = SelectSeq(@, LAMBDA n : n.id # selectedNode.id),
                      !.links = SelectSeq(@, LAMBDA l :
                                   ReactId(l.source) # selectedNode.id
                                   /\ ReactId(l.target) # selectedNode.id)]
                shown == Layout(FilterData(newGraphData, nodeCount))
            IN  /\ graphData' = newGraphData
                /\ filteredData' = shown
                /\ Rendered(newGraphData, shown, Null, TRUE)
                /\ selectedNode' = Null
                /\ contextOpen' = FALSE
                /\ UNCHANGED <<nodeCount, stats>>
       ELSE \* graphData.links.filter throws before any set state call
            UNCHANGED reactVars
    /\ ReactStep("handleDeleteNode", "", NoImport)

\* the node object sel after the objects of old became those of new
Aliased(sel, old, new) ==
    IF sel # Null /\ \E i \in 1..Len(old.nodes) : old.nodes[i] = sel
    THEN new.nodes[CHOOSE i \in 1..Len(old.nodes) : old.nodes[i] = sel]
    ELSE sel

\* a step of the page outside App's handlers
GraphStep(handler) ==
    /\ alert' = ""
    /\ lastImport' = NoImport
    /\ lastHandler' = handler
    /\ UNCHANGED <<payload, download, exported>>
    /\ UNCHANGED <<vanillaVars, asyncVars>>
    /\ UNCHANGED <<graphData, nodeCount, stats, contextOpen>>

\* handleResize with the window at another size: the layout effect runs
\* again on the same data
HandleResize(size) ==
    /\ AppRenders(graphData)
    /\ size \in Sizes \ {dimensions}
    /\ dimensions' = size
    /\ IF filteredData = Null
       THEN /\ UNCHANGED <<filteredData, selectedNode>>
            /\ Rendered(graphData, filteredData, selectedNode, FALSE)
       ELSE LET shown == LayoutAt(filteredData, size)
                sel == Aliased(selectedNode, filteredData, shown)
            IN  /\ \A i \in 1..Len(filteredData.nodes) :
                       Len(filteredData.nodes[i].xy.passes) < MaxPasses
                /\ filteredData' = shown
                /\ selectedNode' = sel
                /\ Rendered(graphData, shown, sel, TRUE)
    /\ GraphStep("handleResize")

\* the value the drag's end handler gives simulation.alphaTarget
ReleaseTarget == 0

\* d.fx and d.fy of a node: where the node was when the drag started (at 0)
\* or where the pointer is (at 1)
Pin(at) == [t |-> "pin", at |-> at]

\* data with node i replaced, the links' endpoints being the node objects
WithNode(data, i, n) ==
    LET nodes == [data.nodes EXCEPT ![i] = n]
    IN  [data EXCEPT !.nodes = nodes, !.links = Relinked(data, nodes)]

\* a release that leaves the node as it is
StillPinned(n) == n

\* d.fx = null; d.fy = null
Released(n) == Write(n, "fx", Null)

\* drag "start" on the i-th node: simulation.alphaTarget(0.3).restart(),
\* d.fx = d.x
DragStart(i) ==
    /\ AppRenders(graphData)
    /\ filteredData # Null
    /\ i \in 1..Len(filteredData.nodes)
    /\ dragging = NoDrag
    /\ dragging' = [node |-> i, at |-> 0]
    /\ graphSim' = [graphSim EXCEPT !.target = ReheatTarget, !.running = TRUE]
    /\ LET shown == WithNode(filteredData, i, Write(filteredData.nodes[i], "fx", Pin(0)))
       IN  /\ filteredData' = shown
           /\ selectedNode' = Aliased(selectedNode, filteredData, shown)
    /\ UNCHANGED <<dom, domNeighborIds, dimensions>>
    /\ GraphStep("drag.start")

\* drag "drag": d.fx = event.x
DragMove ==
    /\ dragging # NoDrag
    /\ dragging.at = 0
    /\ dragging' = [dragging EXCEPT !.at = 1]
    /\ LET shown == WithNode(filteredData, dragging.node,
                             Write(filteredData.nodes[dragging.node], "fx", Pin(1)))
       IN  /\ filteredData' = shown
           /\ selectedNode' = Aliased(selectedNode, filteredData, shown)
    /\ UNCHANGED <<dom, domNeighborIds, dimensions, graphSim>>
    /\ GraphStep("drag.drag")

\* drag "end": simulation.alphaTarget(0), d.fx = null
DragEnd ==
    /\ dragging # NoDrag
    /\ dragging' = NoDrag
    /\ graphSim' = [graphSim EXCEPT !.target = ReleaseTarget]
    /\ LET shown == WithNode(filteredData, dragging.node,
                             Released(filteredData.nodes[dragging.node]))
       IN  /\ filteredData' = shown
           /\ selectedNode' = Aliased(selectedNode, filteredData, shown)
    /\ UNCHANGED <<dom, domNeighborIds, dimensions>>
    /\ GraphStep("drag.end")

\* the simulation's timer fires: one tick moves the node objects (nothing
\* redraws them), and the timer stops once alpha is below alphaMin
TimerTick ==
    /\ graphSim.running
    /\ filteredData # Null
    /\ LET sim == TickN(graphSim, 1)
           nodes == [i \in 1..Len(filteredData.nodes) |->
                       [filteredData.nodes[i] EXCEPT !.xy.moved = TRUE]]
           shown == [filteredData EXCEPT !.nodes = nodes,
                                         !.links = Relinked(filteredData, nodes)]
       IN  /\ graphSim' = IF sim.alpha = 0 THEN Stop(sim) ELSE sim
           /\ filteredData' = shown
           /\ selectedNode' = Aliased(selectedNode, filteredData, shown)
    /\ UNCHANGED <<dom, domNeighborIds, dimensions, dragging>>
    /\ GraphStep("d3.timer")

\* dragged on the i-th node of the vanilla page: d.x = event.x
Dragged(i) ==
    /\ i \in 1..Len(scene.nodes)
    /\ scene' = [scene EXCEPT !.nodes[i].xy.moved = TRUE]
    /\ alert' = ""
    /\ lastImport' = NoImport
    /\ lastHandler' = "dragged"
    /\ UNCHANGED <<payload, download, exported, panelOpen, highlighted, neighborIds,
                   globalGraphData, nodeRange, statsPanel, currentFile, simulation>>
    /\ UNCHANGED <<reactVars, asyncVars>>

\* the files the React app is given
ReactDownload == [src |-> "download", by |-> "react"]

ReactJsonChoices ==
    {[src |-> "foreign", kind |-> "json", variant |-> v, by |-> "react"] :
        v \in {"full", "group_names", "nodes", "links", "invalid"}}

\* accept=".json, .xlsx, .db, .sqlite, .sqlite3" of the import input
Accepted == {"json", "xlsx", "db", "sqlite", "sqlite3"}

ReactNamedChoices ==
    {[src |-> "named", name |-> n, by |-> "react"] :
        n \in {m \in ImportNames : Extension(m) \in Accepted}}

\* JSON.parse(e.target.result) of the file read as text
ReadJson(f) ==
    IF f.kind = "json" THEN JsonParse(f.text) ELSE [ok |-> FALSE, error |-> "SyntaxError"]

ImportFailed == "Import failed"

\* json.meta?.stats
MetaStats(json) == IF "meta" \in DOMAIN json THEN Get(json.meta, "stats") ELSE Undefined

\* handleImport(file): every set state call made before a throw takes effect
HandleImport(d) ==
    /\ AppRenders(graphData)
    /\ d.src = "download" => download # NoFile
    /\ LET parsed == ReadJson(FileOf(d))
           json == parsed.graph
           initialCount == Min(DefaultNodeCount, Len(json.nodes))
           shown == Layout(FilterData(json, initialCount))
       IN  IF ~parsed.ok
           THEN /\ UNCHANGED <<graphData, stats, nodeCount, filteredData>>
                /\ Rendered(graphData, filteredData, selectedNode, FALSE)
                /\ ReactStep("handleImport", ImportFailed, d)
           ELSE /\ graphData' = json
                /\ stats' = MetaStats(json)
                /\ IF "nodes" \notin DOMAIN json
                   THEN /\ UNCHANGED <<nodeCount, filteredData>>
                        /\ Rendered(json, filteredData, selectedNode, FALSE)
                        /\ ReactStep("handleImport", ImportFailed, d)
                   ELSE /\ nodeCount' = initialCount
                        /\ IF "links" \notin DOMAIN json
                           THEN /\ UNCHANGED filteredData
                                /\ Rendered(json, filteredData, selectedNode, FALSE)
                                /\ ReactStep("handleImport", ImportFailed, d)
                           ELSE /\ filteredData' = shown
                                /\ Rendered(json, shown, selectedNode, TRUE)
                                /\ ReactStep("handleImport", "", d)
    /\ UNCHANGED <<selectedNode, contextOpen>>

\* the name handleExport gives the file (Date.now() left out)
DownloadJsonReact == "analysis_result_.json"

NotImplemented == "Only JSON export is implemented for now."

\* an export of the graph as the upload delivered it
PayloadCopy == PayloadGraph(payload)

\* const dataToExport = graphData || filteredData
DataToExport == IF graphData # Null THEN graphData ELSE filteredData

\* handleExport(type); the buttons exist only while graphData is set
HandleExport(type) ==
    /\ AppRenders(graphData)
    /\ graphData # Null
    /\ IF type = "json"
       THEN /\ download' = JsonFile(DownloadJsonReact, JsonStringify(DataToExport))
            /\ exported' = DataToExport
            /\ alert' = ""
       ELSE /\ alert' = NotImplemented
            /\ UNCHANGED <<download, exported>>
    /\ lastImport' = NoImport
    /\ lastHandler' = "handleExport"
    /\ UNCHANGED payload
    /\ UNCHANGED vanillaVars
    /\ UNCHANGED <<reactVars, asyncVars>>

(***************************************************************************)
(* Initial state: nothing loaded, one payload per session.                 *)
(***************************************************************************)
(***************************************************************************)
(* loadSqlJsLib, called by exportDataToSQLite and by the reader.onload of  *)
(* importAndVisualize; the sql.js script has loaded (window.initSqlJs is a *)
(* function).  A call is a process: it runs to its await and resumes when  *)
(* the promise of its initSqlJs invocation resolves.                       *)
(***************************************************************************)
Callers == 1..MaxCallers

Idle == [pc |-> "idle"]

\* the module object a promise of initSqlJs resolves to: sql.js is not part
\* of the source, so the k-th invocation may yield its own object or the
\* object of the first
Engines(k) == {[t |-> "object", v |-> 1], [t |-> "object", v |-> k]}

\* loadSqlJsLib() up to its first suspension
LoadSqlJsLib(c) ==
    /\ loads[c].pc = "idle"
    /\ IF Truthy(windowSQL)
       THEN /\ loads' = [loads EXCEPT ![c] = [pc |-> "returned", SQL |-> windowSQL]]
            /\ UNCHANGED initSqlJsCalls
       ELSE /\ initSqlJsCalls' = initSqlJsCalls + 1
            /\ \E e \in Engines(initSqlJsCalls + 1) :
                   loads' = [loads EXCEPT ![c] = [pc |-> "await", promise |-> e]]
    /\ UNCHANGED <<windowSQL, dbExport, uiVars>>
    /\ UNCHANGED <<envVars, vanillaVars, reactVars>>

\* window.SQL = await window.initSqlJs(config); return window.SQL
InitSqlJsResolved(c) ==
    /\ loads[c].pc = "await"
    /\ windowSQL' = loads[c].promise
    /\ loads' = [loads EXCEPT ![c] = [pc |-> "returned", SQL |-> loads[c].promise]]
    /\ UNCHANGED <<initSqlJsCalls, dbExport, uiVars>>
    /\ UNCHANGED <<envVars, vanillaVars, reactVars>>

\* the calling handler finishes with its engine
CallerDone(c) ==
    /\ loads[c].pc = "returned"
    /\ loads' = [loads EXCEPT ![c] = Idle]
    /\ UNCHANGED <<windowSQL, initSqlJsCalls, dbExport, uiVars>>
    /\ UNCHANGED <<envVars, vanillaVars, reactVars>>

(***************************************************************************)
(* exportDataToSQLite statement by statement, from the creation of the     *)
(* database (the engine has been loaded).  The function runs without a     *)
(* further await; a statement of the engine may throw, and the catch block *)
(* abandons the database as it is.                                         *)
(***************************************************************************)
EmptyTables == [nodes |-> <<>>, links |-> <<>>, meta |-> <<>>]

\* new SQL.Database(): the rows as committed and as the connection sees them
NewDatabase == [txn |-> FALSE, committed |-> EmptyTables, working |-> EmptyTables]

\* a COMMIT that is never issued
NoTransaction(d) == d

\* db.run("BEGIN TRANSACTION")
BeginTransaction(d) == [d EXCEPT !.txn = TRUE]

\* stmt.run(row): outside a transaction the row is committed at once
InsertRow(d, table, row) ==
    LET w == [d.working EXCEPT ![table] = Append(@, row)]
    IN  [d EXCEPT !.working = w, !.committed = IF d.txn THEN @ ELSE w]

\* db.run("COMMIT")
Commit(d) == [d EXCEPT !.txn = FALSE, !.committed = d.working]

RECURSIVE InsertRows(_, _, _)
InsertRows(d, table, rows) ==
    IF rows = <<>> THEN d ELSE InsertRows(InsertRow(d, table, Head(rows)), table, Tail(rows))

\* db.export(): the file holds what the connection sees
DbExport(d) ==
    [nodes |-> Table(NodeColumns, d.working.nodes),
     links |-> Table(LinkColumns, d.working.links),
     meta |-> Table(MetaColumns, d.working.meta)]

NoExport == [pc |-> "idle", i |-> 0, db |-> Null]

\* the positions at which no export is running
Resting == {"idle", "done", "failed"}

ExportFailed == "SQLite export failed"

\* btn.disabled = true, then (the engine loaded) new SQL.Database(),
\* nodeMap, the CREATE TABLEs, BEGIN and prepare
SqliteOpen ==
    /\ dbExport.pc \in Resting
    /\ globalGraphData # Null
    /\ dbExport' = [pc |-> "nodes", i |-> 0, db |-> BeginTransaction(NewDatabase)]
    /\ sqliteBtn' = "disabled"
    /\ UNCHANGED <<upload, context>>
    /\ UNCHANGED <<windowSQL, initSqlJsCalls, loads>>
    /\ UNCHANGED <<envVars, vanillaVars, reactVars>>

\* nodesStmt.run([nodeMap.get(n.id), n.id, n.weight]) for the next node
SqliteInsertNode ==
    /\ dbExport.pc = "nodes"
    /\ dbExport.i < Len(globalGraphData.nodes)
    /\ dbExport' = [dbExport EXCEPT
                       !.i = @ + 1,
                       !.db = InsertRow(@, "nodes",
                                        SqlNodeRows(globalGraphData.nodes)[dbExport.i + 1])]
    /\ UNCHANGED uiVars
    /\ UNCHANGED <<windowSQL, initSqlJsCalls, loads>>
    /\ UNCHANGED <<envVars, vanillaVars, reactVars>>

\* nodesStmt.free(); db.run("COMMIT")
SqliteCommitNodes ==
    /\ dbExport.pc = "nodes"
    /\ dbExport.i = Len(globalGraphData.nodes)
    /\ dbExport' = [pc |-> "committed", i |-> 0, db |-> Commit(dbExport.db)]
    /\ UNCHANGED uiVars
    /\ UNCHANGED <<windowSQL, initSqlJsCalls, loads>>
    /\ UNCHANGED <<envVars, vanillaVars, reactVars>>

\* db.run("BEGIN TRANSACTION") and the prepare of the link statement
SqliteBeginLinks ==
    /\ dbExport.pc = "committed"
    /\ dbExport' = [pc |-> "links", i |-> 0, db |-> BeginTransaction(dbExport.db)]
    /\ UNCHANGED uiVars
    /\ UNCHANGED <<windowSQL, initSqlJsCalls, loads>>
    /\ UNCHANGED <<envVars, vanillaVars, reactVars>>

\* the forEach body for the next link: the row is inserted if (sId && tId)
SqliteInsertLink ==
    /\ dbExport.pc = "links"
    /\ dbExport.i < Len(globalGraphData.links)
    /\ LET l == globalGraphData.links[dbExport.i + 1]
           nodeMap == NodeMap(globalGraphData.nodes)
           sId == MapGet(nodeMap, GetId(l.source))
           tId == MapGet(nodeMap, GetId(l.target))
           row == [source |-> sId, target |-> tId, weight |-> l.weight]
       IN  dbExport' = [dbExport EXCEPT
                          !.i = @ + 1,
                          !.db = IF Truthy(sId) /\ Truthy(tId)
                                 THEN InsertRow(@, "links", row) ELSE @]
    /\ UNCHANGED uiVars
    /\ UNCHANGED <<windowSQL, initSqlJsCalls, loads>>
    /\ UNCHANGED <<envVars, vanillaVars, reactVars>>

\* linksStmt.free(); db.run("COMMIT")
SqliteCommitLinks ==
    /\ dbExport.pc = "links"
    /\ dbExport.i = Len(globalGraphData.links)
    /\ dbExport' = [pc |-> "meta", i |-> 0, db |-> Commit(dbExport.db)]
    /\ UNCHANGED uiVars
    /\ UNCHANGED <<windowSQL, initSqlJsCalls, loads>>
    /\ UNCHANGED <<envVars, vanillaVars, reactVars>>

\* the meta rows, db.export() and the download
SqliteFinish ==
    /\ dbExport.pc = "meta"
    /\ LET db == IF "meta" \in DOMAIN globalGraphData
                 THEN InsertRows(dbExport.db, "meta", SqlMetaRows(globalGraphData.meta))
                 ELSE dbExport.db
       IN  /\ dbExport' = [pc |-> "done", i |-> 0, db |-> db]
           /\ download' = DbFile(DownloadDb, DbExport(db))
    /\ exported' = globalGraphData
    /\ alert' = ""
    /\ lastImport' = NoImport
    /\ lastHandler' = "exportDataToSQLite"
    /\ UNCHANGED payload
    /\ sqliteBtn' = "enabled"
    /\ UNCHANGED <<upload, context>>
    /\ UNCHANGED <<windowSQL, initSqlJsCalls, loads>>
    /\ UNCHANGED <<vanillaVars, reactVars>>

\* a statement throws: catch (e) { alert("SQLite 导出失败: " + e.message) }
SqliteThrow ==
    /\ dbExport.pc \notin Resting
    /\ dbExport' = [dbExport EXCEPT !.pc = "failed"]
    /\ alert' = ExportFailed
    /\ lastImport' = NoImport
    /\ lastHandler' = "exportDataToSQLite"
    /\ UNCHANGED <<payload, download, exported>>
    /\ sqliteBtn' = "enabled"
    /\ UNCHANGED <<upload, context>>
    /\ UNCHANGED <<windowSQL, initSqlJsCalls, loads>>
    /\ UNCHANGED <<vanillaVars, reactVars>>

(***************************************************************************)
(* The two callers of loadSqlJsLib as processes, with an engine that may   *)
(* fail to load: window.initSqlJs is not a function (loadSqlJsLib throws   *)
(* before calling it) or the promise of initSqlJs rejects.  A slot of      *)
(* loads holds one invocation of exportDataToSQLite or of the reader's     *)
(* onload from its await to its end; "failed" marks a slot whose           *)
(* invocation ended in its catch block, and retry records that the slot's  *)
(* invocation follows one that failed.                                     *)
(***************************************************************************)
Threw == [t |-> "threw"]

Rejected == [t |-> "rejected"]

EngineFailed(p) == p \in {Threw, Rejected}

ImportEngineFailed == "SQLite import failed: engine"

\* what await loadSqlJsLib() waits for, and whether initSqlJs was called
Awaited(c, op, file) ==
    IF Truthy(windowSQL)
    THEN /\ loads' = [loads EXCEPT ![c] = [pc |-> "await", promise |-> windowSQL,
                                           op |-> op, file |-> file, cached |-> TRUE,
                                           retry |-> loads[c].pc = "failed"]]
         /\ UNCHANGED initSqlJsCalls
    ELSE \E e \in Engines(initSqlJsCalls + 1) \cup {Threw, Rejected} :
         /\ loads' = [loads EXCEPT ![c] = [pc |-> "await", promise |-> e,
                                           op |-> op, file |-> file, cached |-> FALSE,
                                           retry |-> loads[c].pc = "failed"]]
         /\ initSqlJsCalls' = IF e = Threw THEN initSqlJsCalls ELSE initSqlJsCalls + 1

\* the slot of an invocation that has ended without an error
Ended(c) == [pc |-> "idle", retry |-> loads[c].retry]

\* a window.SQL that takes whatever the promise settled with
Poisoned(c) ==
    IF loads[c].cached THEN windowSQL ELSE loads[c].promise

\* window.SQL after the await of slot c
Assigned(c) ==
    IF loads[c].cached \/ EngineFailed(loads[c].promise)
    THEN windowSQL ELSE loads[c].promise

\* the file of the database format a user may pick
DbChoices ==
    {d \in TabularChoices : d.kind = "db" /\ d.missing = "" /\ d.schema = "current"}

\* the slot of the call in exportDataToSQLite and the slot of the call in
\* the reader's onload: one invocation of each is followed at a time
ExportSlot == 1

ImportSlot == 2

Free(c) == loads[c].pc \in {"idle", "failed"}

\* exportDataToSQLite() up to await loadSqlJsLib(): the button is disabled
ExportDataToSQLiteCalled(c) ==
    /\ globalGraphData # Null
    /\ sqliteBtn = "enabled"
    /\ Free(c)
    /\ initSqlJsCalls < MaxCallers
    /\ sqliteBtn' = "disabled"
    /\ UNCHANGED <<upload, context>>
    /\ Awaited(c, "export", FromDownload)
    /\ lastHandler' = "exportDataToSQLite"
    /\ UNCHANGED <<payload, download, exported, alert, lastImport>>
    /\ UNCHANGED <<windowSQL, dbExport>>
    /\ UNCHANGED <<vanillaVars, reactVars>>

\* exportDataToSQLite() from its await to its end: the database is written
\* and downloaded, or the catch block alerts; finally the button is enabled
ExportDataToSQLiteResumed(c) ==
    /\ loads[c].pc = "await"
    /\ loads[c].op = "export"
    /\ windowSQL' = Assigned(c)
    /\ IF EngineFailed(loads[c].promise)
       THEN /\ alert' = ExportFailed
            /\ loads' = [loads EXCEPT ![c] = [pc |-> "failed"]]
            /\ UNCHANGED <<download, exported>>
       ELSE /\ alert' = ""
            /\ loads' = [loads EXCEPT ![c] = Ended(c)]
            /\ download' = DbFile(DownloadDb, SqliteDatabase(globalGraphData))
            /\ exported' = globalGraphData
    /\ sqliteBtn' = "enabled"
    /\ UNCHANGED <<upload, context>>
    /\ lastImport' = NoImport
    /\ lastHandler' = "exportDataToSQLite"
    /\ UNCHANGED payload
    /\ UNCHANGED <<initSqlJsCalls, dbExport>>
    /\ UNCHANGED <<vanillaVars, reactVars>>

\* importAndVisualize() with a database file chosen: reader.onload up to
\* await loadSqlJsLib()
ReaderOnload(c, d) ==
    /\ Free(c)
    /\ initSqlJsCalls < MaxCallers
    /\ Awaited(c, "import", d)
    /\ lastHandler' = "importAndVisualize"
    /\ UNCHANGED <<payload, download, exported, alert, lastImport>>
    /\ UNCHANGED <<windowSQL, dbExport, uiVars>>
    /\ UNCHANGED <<vanillaVars, reactVars>>

\* reader.onload from its await to its end
ReaderOnloadResumed(c) ==
    /\ loads[c].pc = "await"
    /\ loads[c].op = "import"
    /\ windowSQL' = Assigned(c)
    /\ IF EngineFailed(loads[c].promise)
       THEN /\ RejectImport(ImportEngineFailed)
            /\ loads' = [loads EXCEPT ![c] = [pc |-> "failed"]]
       ELSE /\ LET f == FileOf(loads[c].file)
                   r == Decode(f)
               IN  IF r.ok THEN ProcessResult(r.graph, f.name)
                   ELSE RejectImport(r.error)
            /\ loads' = [loads EXCEPT ![c] = Ended(c)]
    /\ lastImport' = loads[c].file
    /\ lastHandler' = "importAndVisualize"
    /\ UNCHANGED <<payload, download, exported, panelOpen>>
    /\ UNCHANGED <<initSqlJsCalls, dbExport, uiVars>>
    /\ UNCHANGED reactVars

(***************************************************************************)
(* uploadAndAnalyze (index.js) and handleUpload (App.tsx) as processes of  *)
(* their pages: the handler up to its first await, the two fetches, the    *)
(* socket and its events.  WsCompleted and HandleUploadCompleted are the   *)
(* onmessage handlers for status 'completed'.                              *)
(***************************************************************************)
Pages == {"vanilla", "react"}

UploadHandler(page) == IF page = "vanilla" THEN "uploadAndAnalyze" ELSE "handleUpload"

\* a step of an upload that touches nothing but the upload and the alert
UploadStep(page, handler, message, u) ==
    /\ upload' = [upload EXCEPT ![page] = u]
    /\ alert' = message
    /\ lastImport' = NoImport
    /\ lastHandler' = handler
    /\ UNCHANGED <<payload, download, exported>>
    /\ UNCHANGED <<reactVars, engineVars>>

\* the handler up to its first await: the button is disabled, the loading
\* indicator shown
UploadStarted(page) ==
    /\ upload[page].btn = "enabled"
    /\ UploadStep(page, UploadHandler(page), "",
                  [pc |-> "upload", loading |-> TRUE, btn |-> "disabled",
                   open |-> FALSE, progress |-> "uploading"])
    /\ UNCHANGED vanillaVars

\* fetch('/upload') answered ok: index.js stores window.currentFile
UploadFetched(page) ==
    /\ upload[page].pc = "upload"
    /\ UploadStep(page, UploadHandler(page), "",
                  [upload[page] EXCEPT !.pc = "analyze", !.progress = "requesting"])
    /\ currentFile' = IF page = "vanilla" THEN Str(UploadName) ELSE currentFile
    /\ UNCHANGED <<globalGraphData, nodeRange, statsPanel, scene, highlighted,
                   neighborIds, panelOpen, simulation>>

\* fetch('/analyze') answered ok: the socket is created and opens
AnalyzeFetched(page) ==
    /\ upload[page].pc = "analyze"
    /\ UploadStep(page, UploadHandler(page), "",
                  [upload[page] EXCEPT !.pc = "socket", !.open = TRUE])
    /\ UNCHANGED vanillaVars

UploadFailed == "Upload failed"

\* a fetch is answered not ok or rejects: the catch block alerts and
\* clears the loading state
FetchFailed(page) ==
    /\ upload[page].pc \in {"upload", "analyze"}
    /\ UploadStep(page, UploadHandler(page), UploadFailed, NoUpload)
    /\ UNCHANGED vanillaVars

TaskFailed == "Task failed"

\* the handler's name with the status of the message it was given
OnMessage(status) == IF status = "error" THEN "ws.onmessage.error"
                     ELSE "ws.onmessage.processing"

\* a handler that takes an error message for a progress message
WsOnMessagePending(page, status) ==
    /\ upload[page].open
    /\ status \in {"processing", "error"}
    /\ UploadStep(page, OnMessage(status), "",
                  [upload[page] EXCEPT !.progress = "processing"])
    /\ UNCHANGED vanillaVars

\* ws.onmessage with status 'processing' or 'error'
WsOnMessage(page, status) ==
    /\ upload[page].open
    /\ status \in {"processing", "error"}
    /\ IF status = "error"
       THEN UploadStep(page, OnMessage(status), TaskFailed, NoUpload)
       ELSE UploadStep(page, OnMessage(status), "",
                       [upload[page] EXCEPT !.progress = "processing"])
    /\ UNCHANGED vanillaVars

SocketError == "WebSocket connection error"

\* the socket fails (error event, then close): index.js logs it, App.tsx
\* clears the loading state and alerts
WsErrored(page) ==
    /\ upload[page].open
    /\ IF page = "vanilla"
       THEN UploadStep(page, "ws.onerror", "", [upload[page] EXCEPT !.open = FALSE])
       ELSE UploadStep(page, "ws.onerror", SocketError, NoUpload)
    /\ UNCHANGED vanillaVars

\* the server closes the socket without a terminal message: index.js logs
\* it, App.tsx has no handler
WsClosed(page) ==
    /\ upload[page].open
    /\ UploadStep(page, "ws.onclose", "", [upload[page] EXCEPT !.open = FALSE])
    /\ UNCHANGED vanillaVars

Init ==
    /\ payload \in Payloads
    /\ download = NoFile
    /\ exported = Null
    /\ alert = ""
    /\ lastImport = NoImport
    /\ lastHandler = ""
    /\ globalGraphData = Null
    /\ nodeRange = [max |-> 0, value |-> 0]
    /\ statsPanel = Null
    /\ currentFile = Undefined
    /\ scene = EmptyScene
    /\ highlighted = Null
    /\ neighborIds = {}
    /\ panelOpen = FALSE
    /\ graphData = Null
    /\ filteredData = Null
    /\ nodeCount = DefaultNodeCount
    /\ selectedNode = Null
    /\ stats = Null
    /\ contextOpen = FALSE
    /\ dom = EmptyScene
    /\ domNeighborIds = {}
    /\ dimensions = 1
    /\ graphSim = NoSimulation
    /\ dragging = NoDrag
    /\ simulation = Stop(NewSimulation)
    /\ windowSQL = Undefined
    /\ initSqlJsCalls = 0
    /\ loads = [c \in Callers |-> Idle]
    /\ dbExport = NoExport
    /\ sqliteBtn = "enabled"
    /\ upload = [page \in {"vanilla", "react"} |-> NoUpload]
    /\ context = NoContext

\* the vanilla page under pointer input
NextVanilla ==
    \/ WsCompleted
    \/ \E val \in 0..MaxNodes : ApplyNodeFilter(val)
    \/ \E i \in 1..MaxNodes : NodeDblClick(i)
    \/ BackgroundClick

SpecVanilla == Init /\ [][NextVanilla]_vars

\* the vanilla page exporting the graph and importing its own exports
NextCodec ==
    \/ WsCompleted
    \/ ExportData
    \/ ExportDataToExcel
    \/ ExportDataToSQLite
    \/ ImportAndVisualize(FromDownload)

\* the vanilla page importing the files of other producers
NextImport ==
    \/ WsCompleted
    \/ \E d \in TabularChoices \cup JsonChoices : ImportAndVisualize(d)

SpecImport == Init /\ [][NextImport]_vars

\* the React app under load, selection, deletion and import
NextReact ==
    \/ HandleUploadCompleted
    \/ \E i \in 1..MaxNodes : HandleNodeClick(i, FALSE)
    \/ HandleBackgroundClick
    \/ HandleDeleteNode
    \/ \E d \in ReactJsonChoices : HandleImport(d)
    \/ HandleExport("excel")

SpecReact == Init /\ [][NextReact]_vars

\* both pages exporting JSON and importing the JSON either of them exported
NextPlain ==
    \/ WsCompleted
    \/ ExportData
    \/ ImportAndVisualize(FromDownload)
    \/ HandleUploadCompleted
    \/ HandleExport("json")
    \/ HandleImport(ReactDownload)

SpecPlain == Init /\ [][NextPlain]_vars

\* a session whose upload delivers a graph of the largest size
InitLarge == Init /\ payload.n = MaxNodes

\* either page (a session uses one of them) under load, structural edits
\* and JSON export
NextExport ==
    \/ graphData = Null /\ WsCompleted
    \/ graphData = Null /\ \E val \in 0..MaxNodes : ApplyNodeFilter(val)
    \/ graphData = Null /\ ExportData
    \/ globalGraphData = Null /\ HandleUploadCompleted
    \/ globalGraphData = Null /\ \E i \in 1..MaxNodes : HandleNodeClick(i, FALSE)
    \/ globalGraphData = Null /\ \E val \in 1..MaxNodes : HandleNodeRangeChange(val)
    \/ globalGraphData = Null /\ HandleDeleteNode
    \/ globalGraphData = Null /\ HandleExport("json")

SpecExport == InitLarge /\ [][NextExport]_vars

\* either page under loads, node-count filters and window resizes
NextResize ==
    \/ graphData = Null /\ WsCompleted
    \/ graphData = Null /\ \E val \in 0..MaxNodes : ApplyNodeFilter(val)
    \/ globalGraphData = Null /\ HandleUploadCompleted
    \/ globalGraphData = Null /\ \E val \in 1..MaxNodes : HandleNodeRangeChange(val)
    \/ globalGraphData = Null /\ \E i \in 1..MaxNodes : HandleNodeClick(i, FALSE)
    \/ globalGraphData = Null /\ \E size \in Sizes : HandleResize(size)

SpecResize == InitLarge /\ [][NextResize]_vars

\* either page under loads, structural edits and selections
NextSelect ==
    \/ graphData = Null /\ WsCompleted
    \/ graphData = Null /\ \E val \in 0..MaxNodes : ApplyNodeFilter(val)
    \/ graphData = Null /\ \E i \in 1..MaxNodes : NodeDblClick(i)
    \/ graphData = Null /\ BackgroundClick
    \/ globalGraphData = Null /\ HandleUploadCompleted
    \/ globalGraphData = Null /\ \E val \in 1..MaxNodes : HandleNodeRangeChange(val)
    \/ globalGraphData = Null /\ \E i \in 1..MaxNodes : HandleNodeClick(i, FALSE)
    \/ globalGraphData = Null /\ HandleBackgroundClick
    \/ globalGraphData = Null /\ HandleDeleteNode

SpecSelect == InitLarge /\ [][NextSelect]_vars

\* either page under loads, filters, layout passes, selections and exports
NextFrame ==
    \/ graphData = Null /\ WsCompleted
    \/ graphData = Null /\ \E val \in 0..MaxNodes : ApplyNodeFilter(val)
    \/ graphData = Null /\ \E i \in 1..MaxNodes : NodeDblClick(i)
    \/ graphData = Null /\ BackgroundClick
    \/ graphData = Null /\ ExportData
    \/ graphData = Null /\ ExportDataToExcel
    \/ graphData = Null /\ ExportDataToSQLite
    \/ globalGraphData = Null /\ HandleUploadCompleted
    \/ globalGraphData = Null /\ \E val \in 1..MaxNodes : HandleNodeRangeChange(val)
    \/ globalGraphData = Null /\ \E i \in 1..MaxNodes : HandleNodeClick(i, FALSE)
    \/ globalGraphData = Null /\ HandleBackgroundClick
    \/ globalGraphData = Null /\ \E size \in Sizes : HandleResize(size)
    \/ globalGraphData = Null /\ HandleExport("json")

\* the sessions whose payload has every node and as many links as may be,
\* each joining two of its nodes
InitFull ==
    /\ InitLarge
    /\ Len(payload.links) = MaxLinks
    /\ \A k \in 1..MaxLinks : payload.links[k][1] <= MaxNodes
                              /\ payload.links[k][2] <= MaxNodes

SpecFrame == InitFull /\ [][NextFrame]_vars

\* the React app's context panel: clicks whose /context requests the server
\* settles in any order, or never
NextContext ==
    \/ HandleUploadCompleted
    \/ \E i \in 1..MaxNodes, answered \in BOOLEAN : HandleNodeClick(i, answered)
    \/ HandleBackgroundClick
    \/ \E i \in 1..MaxNodes, ok \in BOOLEAN : ContextResolved(Str(IdList[i]), ok)

SpecContext == InitFull /\ [][NextContext]_vars

\* uploads of either page with every outcome of the two requests and of the
\* socket
NextUpload ==
    \/ \E page \in Pages : UploadStarted(page)
    \/ \E page \in Pages : UploadFetched(page)
    \/ \E page \in Pages : AnalyzeFetched(page)
    \/ \E page \in Pages : FetchFailed(page)
    \/ \E page \in Pages, status \in {"processing", "error"} : WsOnMessage(page, status)
    \/ upload.vanilla.open /\ WsCompleted
    \/ upload.react.open /\ HandleUploadCompleted
    \/ \E page \in Pages : WsErrored(page)
    \/ \E page \in Pages : WsClosed(page)

\* a pending fetch settles: it is answered or it fails
FetchSettled(page) ==
    UploadFetched(page) \/ AnalyzeFetched(page) \/ FetchFailed(page)

\* an open socket ends: with a terminal message, an error or a close
SocketEnded(page) ==
    \/ WsOnMessage(page, "error")
    \/ IF page = "vanilla" THEN upload.vanilla.open /\ WsCompleted
                           ELSE upload.react.open /\ HandleUploadCompleted
    \/ WsErrored(page)
    \/ WsClosed(page)

\* the browser settles every fetch and ends every socket: no request and no
\* connection stays pending for ever
SpecUpload ==
    /\ InitFull
    /\ [][NextUpload]_vars
    /\ WF_vars(FetchSettled("vanilla")) /\ WF_vars(FetchSettled("react"))
    /\ WF_vars(SocketEnded("vanilla")) /\ WF_vars(SocketEnded("react"))

\* the files of the other formats a user may pick
OtherChoices ==
    {d \in TabularChoices : d.kind = "xlsx" /\ d.missing = "" /\ d.schema = "current"}
    \cup {d \in JsonChoices : d.variant = "full"}

\* the vanilla page with an engine that may fail to load
NextFailing ==
    \/ WsCompleted
    \/ ExportDataToSQLiteCalled(ExportSlot)
    \/ ExportDataToSQLiteResumed(ExportSlot)
    \/ \E d \in DbChoices : ReaderOnload(ImportSlot, d)
    \/ ReaderOnloadResumed(ImportSlot)
    \/ ExportData
    \/ ExportDataToExcel
    \/ \E d \in OtherChoices : ImportAndVisualize(d)

SpecFailing == InitFull /\ [][NextFailing]_vars

\* both pages' uploads with a progress channel that delivers progress
\* messages and then one terminal message
NextChannel ==
    \/ \E page \in Pages : UploadStarted(page)
    \/ \E page \in Pages : UploadFetched(page)
    \/ \E page \in Pages : AnalyzeFetched(page)
    \/ \E page \in Pages, status \in {"processing", "error"} : WsOnMessage(page, status)
    \/ upload.vanilla.open /\ WsCompleted
    \/ upload.react.open /\ HandleUploadCompleted

SpecChannel == Init /\ [][NextChannel]_vars

\* either page under loads, node-count filters and drags
NextDrag ==
    \/ graphData = Null /\ WsCompleted
    \/ graphData = Null /\ \E i \in 1..MaxNodes : Dragged(i)
    \/ globalGraphData = Null /\ HandleUploadCompleted
    \/ globalGraphData = Null /\ \E val \in 1..MaxNodes : HandleNodeRangeChange(val)
    \/ globalGraphData = Null /\ \E i \in 1..MaxNodes : DragStart(i)
    \/ globalGraphData = Null /\ DragMove
    \/ globalGraphData = Null /\ DragEnd
    \/ globalGraphData = Null /\ TimerTick

SpecDrag == InitLarge /\ [][NextDrag]_vars

\* d3's timer calls the step of a running simulation on every animation
\* frame until the simulation stops it
SpecDragLive == SpecDrag /\ WF_vars(TimerTick)

\* handlers of the vanilla page that need the database engine, interleaved
NextEngine ==
    \/ \E c \in Callers : LoadSqlJsLib(c)
    \/ \E c \in Callers : InitSqlJsResolved(c)
    \/ \E c \in Callers : CallerDone(c)

SpecEngine == Init /\ [][NextEngine]_vars

\* the import entry points of both pages on well-formed files of every
\* accepted name
NextSniff ==
    \/ \E d \in NamedChoices : ImportAndVisualize(d)
    \/ \E d \in ReactNamedChoices : HandleImport(d)

SpecSniff == Init /\ [][NextSniff]_vars

\* the vanilla page writing databases; nothing interleaves with a write
NextWrite ==
    \/ dbExport.pc \in Resting /\ WsCompleted
    \/ SqliteOpen
    \/ SqliteInsertNode
    \/ SqliteCommitNodes
    \/ SqliteBeginLinks
    \/ SqliteInsertLink
    \/ SqliteCommitLinks
    \/ SqliteFinish
    \/ SqliteThrow

SpecWrite == Init /\ [][NextWrite]_vars

SpecCodec == Init /\ [][NextCodec]_vars

(***************************************************************************)
(* Properties of the codec (index.js export and import handlers).          *)
(***************************************************************************)
Succeeded == "Import succeeded"

\* what the decoder returned for the file the last handler imported
Decoded == Decode(FileOf(lastImport))

TabularFull == {d \in TabularChoices : d.missing = ""}

NodeIdSet(g) == {g.nodes[i].id : i \in 1..Len(g.nodes)}

\* the (id, weight) pairs of the nodes, weights passed through round
NodeWeights(g, round(_)) == {<<g.nodes[i].id, round(g.nodes[i].weight)>> : i \in 1..Len(g.nodes)}

LinkTriple(l, round(_)) == <<GetId(l.source), GetId(l.target), round(l.weight)>>

\* how many links of g are the triple x
LinkCount(g, x, round(_)) ==
    Cardinality({i \in 1..Len(g.links) : LinkTriple(g.links[i], round) = x})

\* the same multiset of (source id, target id, weight) links
SameLinks(g, h, round(_)) ==
    \A x \in {LinkTriple(g.links[i], round) : i \in 1..Len(g.links)}
             \cup {LinkTriple(h.links[i], LAMBDA w : w) : i \in 1..Len(h.links)} :
        LinkCount(g, x, round) = LinkCount(h, x, LAMBDA w : w)

Exact(w) == w

\* C1 as stated: whenever the page has imported the database image its own
\* SQLite export wrote for a graph G, the decoded graph has G's node id set,
\* G's weight per node and G's multiset of (source, target, weight) links.
C1_SqliteRoundTrip ==
    (lastImport = FromDownload /\ download.kind = "db") =>
        /\ Decoded.ok
        /\ NodeIdSet(Decoded.graph) = NodeIdSet(exported)
        /\ NodeWeights(Decoded.graph, Exact) = NodeWeights(exported, Exact)
        /\ SameLinks(exported, Decoded.graph, Exact)

\* C2 as stated: whenever the page has imported the workbook its own Excel
\* export wrote for a graph G, the decoded graph has G's node id set and G's
\* link endpoint pairs, and every weight is G's weight rounded to two
\* decimals.
C2_WorkbookRoundTrip ==
    (lastImport = FromDownload /\ download.kind = "xlsx") =>
        /\ Decoded.ok
        /\ NodeIdSet(Decoded.graph) = NodeIdSet(exported)
        /\ NodeWeights(Decoded.graph, Exact) = NodeWeights(exported, ToFixed2)
        /\ SameLinks(exported, Decoded.graph, ToFixed2)

OtherSchema(d) ==
    [d EXCEPT !.schema = IF d.schema = "legacy" THEN "current" ELSE "legacy"]

\* C4: whenever the page has imported a Legacy-schema or Current-schema
\* table of the session's graph (workbook or database), the decoder's result
\* and the graph now shown are what the table of the other schema variant
\* decodes to.
C4_SchemaTransparency ==
    lastImport \in TabularFull =>
        LET other == Decode(FileOf(OtherSchema(lastImport)))
        IN  /\ Decoded.ok /\ other.ok
            /\ Decoded.graph = other.graph
            /\ globalGraphData = FilteredGraph(other.graph, nodeRange.value)

\* a Current-schema table with at least two nodes and a link between them
\* has just been imported
C4_Witness ==
    /\ lastImport \in TabularFull
    /\ lastImport.schema = "current"
    /\ alert = Succeeded
    /\ Len(globalGraphData.nodes) >= 2
    /\ Len(globalGraphData.links) >= 1

\* the node and link rows of a tabular file, and its id-to-label map
NodeRowsOf(f) == IF f.kind = "xlsx" THEN f.sheets.Nodes ELSE f.tables.nodes.rows
LinkRowsOf(f) == IF f.kind = "xlsx" THEN f.sheets.Links ELSE f.tables.links.rows
MapOf(d) == IdToLabelMap(NodeRowsOf(FileOf(d)), d.schema = "current")

\* the link rows whose source or target id is not a key of the map
DanglingRows(d) ==
    LET rows == LinkRowsOf(FileOf(d))
    IN  {k \in 1..Len(rows) :
           ~MapHas(MapOf(d), rows[k].source) \/ ~MapHas(MapOf(d), rows[k].target)}

\* C5 as stated: whenever a table with node and link rows has been imported,
\* the decode succeeded and the decoded link count is the number of link
\* rows minus the number of rows with an endpoint id absent from the
\* id-to-label map.
C5_DanglingOmission ==
    lastImport \in TabularFull =>
        /\ Decoded.ok
        /\ Len(Decoded.graph.links) =
              Len(LinkRowsOf(FileOf(lastImport))) - Cardinality(DanglingRows(lastImport))

IsNodeId(e, g) == e.t = "string" /\ e \in NodeIdSet(g)

EndpointsAreNodeIds(g) ==
    \A i \in 1..Len(g.links) :
        IsNodeId(g.links[i].source, g) /\ IsNodeId(g.links[i].target, g)

\* C6 as stated: in the graph any successful decode returned (JSON, workbook
\* or database), every link's source and target is the string id of a node
\* of that graph.
C6_AllEndpointsAreNodeIds ==
    (lastImport # NoImport /\ Decoded.ok) => EndpointsAreNodeIds(Decoded.graph)

\* C6 amended: in the graph a successful workbook or database decode
\* returned, every link's source and target is the string id of a node of
\* that graph, never a surrogate; a successful JSON decode returns the links
\* with the endpoints the text holds, whether or not a node has that id.
C6_TabularEndpointsAreNodeIds ==
    /\ (lastImport \in TabularChoices /\ Decoded.ok) => EndpointsAreNodeIds(Decoded.graph)
    /\ (lastImport \in JsonChoices /\ Decoded.ok) =>
          Decoded.graph.links = PayloadGraph(payload).links

\* a Current-schema database whose links name surrogate ids has been
\* imported and a link was kept
C6_Witness ==
    /\ lastImport \in TabularFull
    /\ lastImport.kind = "db"
    /\ lastImport.schema = "current"
    /\ Decoded.ok
    /\ Len(Decoded.graph.links) >= 1

MissingRequired(d) == d.missing \in {"Nodes", "Links", "nodes", "links"}

\* C8: a step that imports a workbook without its Nodes or Links sheet, or a
\* database without its nodes or links table, alerts an error and leaves the
\* graph, the drawing, the slider, the stats and the file name as they were;
\* a step that imports a table lacking only Meta succeeds and shows the
\* decoded graph.
C8_TabularRequiresNodesAndLinks ==
    [][lastImport' \in TabularChoices =>
         LET r == Decode(FileOf(lastImport'))
         IN  IF MissingRequired(lastImport')
             THEN /\ ~r.ok
                  /\ alert' = r.error
                  /\ alert' # Succeeded
                  /\ UNCHANGED <<globalGraphData, scene, nodeRange, statsPanel, currentFile>>
             ELSE /\ r.ok
                  /\ alert' = Succeeded
                  /\ globalGraphData' = FilteredGraph(r.graph, Len(r.graph.nodes))]_vars

\* a workbook without its Links sheet was rejected while a graph is shown
C8_Witness ==
    /\ lastImport \in TabularChoices
    /\ lastImport.missing = "Links"
    /\ alert # Succeeded
    /\ globalGraphData # Null
    /\ Len(globalGraphData.nodes) >= 1

C7_ImportAllOrNothing ==
    [][(lastImport' \in ReactJsonChoices
        /\ lastImport'.variant \in {"nodes", "links", "invalid"}) =>
          /\ alert' = ImportFailed
          /\ UNCHANGED <<graphData, filteredData, stats, nodeCount>>]_vars

(***************************************************************************)
(* Properties of the highlight of the vanilla page.                        *)
(***************************************************************************)
\* the ids a link of the shown graph joins to id, in either direction
Adjacent(id) ==
    {GetId(globalGraphData.links[k].target) :
        k \in {k \in 1..Len(globalGraphData.links) :
                 GetId(globalGraphData.links[k].source) = id}}
    \cup {GetId(globalGraphData.links[k].source) :
            k \in {k \in 1..Len(globalGraphData.links) :
                     GetId(globalGraphData.links[k].target) = id}}

\* C9 as stated: whenever a node n of the drawn graph is highlighted, with or
\* without links, the neighborIds set is {n} united with the ids a link
\* joins to n.
C9_NeighborSet ==
    highlighted # Null => neighborIds = {highlighted} \cup Adjacent(highlighted)

\* C10 as stated: in every state a drawn node is at full opacity if and only
\* if nothing is highlighted or it is the highlighted node or one of its
\* neighbours, every other node is at the dim value, and with nothing
\* highlighted every link is at full opacity.
C10_OpacityPartition ==
    /\ \A i \in 1..Len(scene.nodes) :
          LET n == scene.nodes[i]
          IN  /\ n.opacity \in {FullOpacity, DimOpacity}
              /\ n.opacity = FullOpacity <=>
                    \/ highlighted = Null
                    \/ n.id = highlighted
                    \/ n.id \in Adjacent(highlighted)
    /\ highlighted = Null =>
          \A k \in 1..Len(scene.links) : scene.links[k].opacity = FullOpacity

(***************************************************************************)
(* Properties of the info label of the highlighted node.                   *)
(***************************************************************************)
\* the group name the priority rule gives node d of graph: its own
\* groupName, else the graph's name for its group, else "Group {group}"
ResolvedGroupName(d, graph) ==
    IF "groupName" \in DOMAIN d /\ Truthy(d.groupName) THEN d.groupName
    ELSE IF "group_names" \in DOMAIN graph /\ Truthy(NameOfGroup(graph.group_names, d))
    THEN NameOfGroup(graph.group_names, d)
    ELSE GroupFallback(d)

\* C11 as stated: whenever the React app shows the info label of the
\* selected node, the group name on it is the node's own groupName, else
\* the name group_names gives its group, else "Group {group}", the last
\* also when the graph has no group_names.
C11_GroupNamePriority ==
    (selectedNode # Null /\ filteredData # Null) =>
        \A i \in 1..Len(dom.nodes) :
            dom.nodes[i].info # Null =>
                dom.nodes[i].info.group = ResolvedGroupName(selectedNode, filteredData)

(***************************************************************************)
(* Properties of deletion in the React app.                                *)
(***************************************************************************)
\* the ids of a node sequence and the endpoint ids of a link sequence
IdsOf(nodes) == [i \in 1..Len(nodes) |-> nodes[i].id]
EndsOf(links) == [k \in 1..Len(links) |-> <<ReactId(links[k].source), ReactId(links[k].target)>>]

\* C12 as stated: a step of handleDeleteNode with node n selected sets the
\* selection to none, removes n and every link with n as source or target
\* (raw id or resolved reference) from graphData and from the displayed
\* graph, and leaves every other node and link in place.
C12_DeleteSelected ==
    [][lastHandler' = "handleDeleteNode" =>
         /\ selectedNode' = Null
         /\ graphData'.nodes = SelectSeq(graphData.nodes, LAMBDA n : n.id # selectedNode.id)
         /\ graphData'.links =
               SelectSeq(graphData.links, LAMBDA l : ReactId(l.source) # selectedNode.id
                                                    /\ ReactId(l.target) # selectedNode.id)
         /\ IdsOf(filteredData'.nodes) =
               IdsOf(SelectSeq(filteredData.nodes, LAMBDA n : n.id # selectedNode.id))
         /\ EndsOf(filteredData'.links) =
               EndsOf(SelectSeq(filteredData.links,
                                LAMBDA l : ReactId(l.source) # selectedNode.id
                                           /\ ReactId(l.target) # selectedNode.id))]_vars

(***************************************************************************)
(* Properties of export after structural edits.                            *)
(***************************************************************************)
NodeIdsOf(g) == IF g = Null THEN {} ELSE {g.nodes[i].id : i \in 1..Len(g.nodes)}

\* C13: a JSON export step of either page writes the text of the graph the
\* page holds at that moment (nodes, links and all; in the React app the
\* held graph is graphData, of which the slider only selects the shown
\* part); a handleDeleteNode step
\* leaves the held graph without the selected node; and no step but a load
\* adds a node to the held graph, so a deleted node is in no later export
\* of that graph.
C13_ExportIsCurrent ==
    [][/\ lastHandler' = "handleExport" =>
            JsonParse(download'.text).graph = graphData
       /\ lastHandler' = "exportData" =>
            JsonParse(download'.text).graph = globalGraphData
       /\ lastHandler' = "handleDeleteNode" =>
            selectedNode.id \notin NodeIdsOf(graphData')
       /\ lastHandler' # "ws.onmessage" =>
            /\ NodeIdsOf(graphData') \subseteq NodeIdsOf(graphData)
            /\ NodeIdsOf(globalGraphData') \subseteq NodeIdsOf(globalGraphData)]_vars

\* the React app has exported after a deletion: the export lacks a node of
\* the upload
C13_Witness ==
    /\ lastHandler = "handleExport"
    /\ download.kind = "json"
    /\ exported = graphData
    /\ Len(graphData.nodes) >= 1
    /\ Len(graphData.nodes) < payload.n

(***************************************************************************)
(* Properties of the database engine's initialization.                     *)
(***************************************************************************)
\* C14: initSqlJs has been invoked at most once, and all calls of
\* loadSqlJsLib that have returned hold the same engine instance.
C14_InitOnce ==
    /\ initSqlJsCalls <= 1
    /\ \A c, d \in Callers :
           (loads[c].pc = "returned" /\ loads[d].pc = "returned") =>
               loads[c].SQL = loads[d].SQL

(***************************************************************************)
(* Properties of the database write.                                       *)
(***************************************************************************)
\* C15: at every statement boundary of exportDataToSQLite, and in the
\* database an interrupted export leaves behind, the committed rows of
\* nodes are none or all rows of the graph's nodes, the committed rows of
\* links are none or all link rows, and a link row is inserted, or the link
\* phase entered, only with all node rows committed; a finished export
\* downloads the tables of the whole graph.
C15_WriteAtomicity ==
    dbExport.db # Null =>
        LET d == dbExport.db
            allNodes == SqlNodeRows(globalGraphData.nodes)
            allLinks == SqlLinkRows(globalGraphData)
        IN  /\ d.committed.nodes \in {<<>>, allNodes}
            /\ d.committed.links \in {<<>>, allLinks}
            /\ (d.working.links # <<>> \/ dbExport.pc \in {"links", "meta"}) =>
                   d.committed.nodes = allNodes
            /\ dbExport.pc = "done" =>
                   download = DbFile(DownloadDb, SqliteDatabase(globalGraphData))

\* an export was interrupted between two node rows: a row is written, none
\* is committed
C15_Witness ==
    /\ dbExport.pc = "failed"
    /\ dbExport.db.txn
    /\ Len(dbExport.db.working.nodes) >= 1
    /\ Len(dbExport.db.working.nodes) < Len(globalGraphData.nodes)
    /\ dbExport.db.committed.nodes = <<>>

(***************************************************************************)
(* Properties of codec selection.                                          *)
(***************************************************************************)
\* the codec the specification assigns to an extension
CodecOf(ext) ==
    CASE ext \in {"json"} -> "Plain"
      [] ext \in {"xlsx", "xlsb"} -> "Workbook"
      [] ext \in {"db", "DB", "sqlite", "sqlite3"} -> "EmbeddedDB"

\* what that codec decodes the file to
DecodedBy(codec, f) ==
    CASE codec = "Plain" -> JsonDecode(f)
      [] codec = "Workbook" -> XlsxDecode(f)
      [] codec = "EmbeddedDB" -> SqliteDecode(f)

\* C16: an import step of either page on a well-formed file named with one
\* of the listed extensions succeeds, and the page then holds the nodes that
\* the codec of that extension decodes from the file.
C16_CodecByExtension ==
    [][lastHandler' \in {"importAndVisualize", "handleImport"} =>
         LET f == FileOf(lastImport')
             expected == DecodedBy(CodecOf(Extension(f.name)), f)
         IN  /\ expected.ok
             /\ lastHandler' = "importAndVisualize" =>
                    /\ alert' = Succeeded
                    /\ NodeIdsOf(globalGraphData') = NodeIdsOf(expected.graph)
             /\ lastHandler' = "handleImport" =>
                    /\ alert' = ""
                    /\ NodeIdsOf(graphData') = NodeIdsOf(expected.graph)]_vars

(***************************************************************************)
(* Properties of the layout.                                               *)
(***************************************************************************)
\* the position a layout pass gives a node of a graph that no pass has
\* touched, at a size
FirstPass(size) ==
    [passes |-> <<[size |-> size, alpha |-> AlphaFull, ticks |-> LayoutTicks]>>,
     moved |-> FALSE]

\* C17: after any number of layout passes, every node of the vanilla page
\* and of the React app is where a first pass over its graph at the current
\* size puts it: the outcome of a pass depends on the graph and the size
\* only, not on the passes before it.
C17_LayoutDeterminism ==
    /\ \A i \in 1..Len(scene.nodes) : scene.nodes[i].xy = FirstPass(PageSize)
    /\ filteredData # Null =>
           \A i \in 1..Len(filteredData.nodes) :
               filteredData.nodes[i].xy = FirstPass(dimensions)

\* every pass recorded in a position ran exactly LayoutTicks ticks
FixedBudget(xy) == \A k \in 1..Len(xy.passes) : xy.passes[k].ticks = LayoutTicks

\* C18: every layout pass is LayoutTicks (300) ticks, after which the
\* simulation is stopped; the shared simulation of the vanilla page never
\* runs on its timer; the simulation of the React app starts running only
\* by a drag start; and after a drag release it eventually stops ticking
\* (or, before that, another drag has begun).
C18_FixedStepBudget ==
    /\ [](/\ ~simulation.running
          /\ \A i \in 1..Len(scene.nodes) : FixedBudget(scene.nodes[i].xy)
          /\ filteredData # Null =>
                 \A i \in 1..Len(filteredData.nodes) :
                     FixedBudget(filteredData.nodes[i].xy))
    /\ [][/\ (graphSim'.running /\ ~graphSim.running) => lastHandler' = "drag.start"
          /\ lastHandler' \in {"ws.onmessage", "handleNodeRangeChange"} =>
                 ~graphSim'.running]_vars
    /\ (lastHandler = "drag.end") ~> (~graphSim.running \/ dragging # NoDrag)

\* the timer has stopped the simulation after a drag was released
C18_Witness ==
    /\ lastHandler = "d3.timer"
    /\ ~graphSim.running
    /\ graphSim.target = ReleaseTarget
    /\ dragging = NoDrag
    /\ filteredData # Null
    /\ \E i \in 1..Len(filteredData.nodes) : filteredData.nodes[i].xy.moved

\* the ids of the nodes and the endpoints of the links on display
DrawnIds(sc) == [i \in 1..Len(sc.nodes) |-> sc.nodes[i].id]
DrawnLinks(sc) == [k \in 1..Len(sc.links) |-> <<sc.links[k].source, sc.links[k].target>>]
DrawnPositions(sc) == [i \in 1..Len(sc.nodes) |-> sc.nodes[i].xy]

\* every node of a graph is where one pass over new node objects puts it
LaidOutAnew(nodes, size) ==
    \A i \in 1..Len(nodes) : PositionOf(nodes[i]) = FirstPass(size)

\* C19: a step that changes the structure (load, node-count filter,
\* deletion) ends with the graph on display laid out anew: it is the
\* filtered held graph and each node is where one pass puts it.  A
\* selection step (node click or double click, background click) runs no
\* pass: positions, node set, link set and the simulation are as before.
C19_LayoutOnStructureOnly ==
    [][/\ (lastHandler' \in {"ws.onmessage", "applyNodeFilter"}
           /\ globalGraphData' # Null) =>
            /\ LaidOutAnew(scene'.nodes, PageSize)
            /\ DrawnIds(scene') = IdsOf(globalGraphData'.nodes)
       /\ (lastHandler' \in {"ws.onmessage", "handleNodeRangeChange", "handleDeleteNode"}
           /\ graphData' # Null) =>
            /\ filteredData' = Layout(FilterData(graphData', nodeCount'))
            /\ LaidOutAnew(filteredData'.nodes, dimensions')
            /\ ~graphSim'.running
       /\ lastHandler' \in {"dblclick", "click"} =>
            /\ DrawnPositions(scene') = DrawnPositions(scene)
            /\ DrawnIds(scene') = DrawnIds(scene)
            /\ DrawnLinks(scene') = DrawnLinks(scene)
            /\ simulation' = simulation
            /\ globalGraphData' = globalGraphData
       /\ lastHandler' \in {"handleNodeClick", "handleBackgroundClick"} =>
            /\ filteredData' = filteredData
            /\ graphData' = graphData
            /\ graphSim' = graphSim]_vars

\* a node of a drawn graph of several nodes and a link has been selected
C19_Witness ==
    /\ lastHandler = "handleNodeClick"
    /\ selectedNode # Null
    /\ Len(filteredData.nodes) >= 2
    /\ Len(filteredData.links) >= 1
    /\ LaidOutAnew(filteredData.nodes, dimensions)

(***************************************************************************)
(* Properties of the held graph.                                           *)
(***************************************************************************)
\* nothing of a layout has been written into the graph: no node carries a
\* position or an index, no link an index or a node object as endpoint
Untouched(g) ==
    /\ \A i \in 1..Len(g.nodes) : DOMAIN g.nodes[i] \cap {"xy", "index"} = {}
    /\ \A k \in 1..Len(g.links) :
           /\ "index" \notin DOMAIN g.links[k]
           /\ g.links[k].source.t # "object"
           /\ g.links[k].target.t # "object"

ExportHandlers == {"exportData", "exportDataToExcel", "exportDataToSQLite", "handleExport"}

\* C20: the graph a page holds (globalGraphData, graphData) never carries
\* what a layout writes; steps of selection, of a layout pass on resize and
\* of export leave it, nodes, links and meta, as it is; an export step
\* changes nothing of the page, and an export repeated at once writes the
\* same file.
C20_HeldGraphNotMutated ==
    /\ [](/\ globalGraphData # Null => Untouched(globalGraphData)
          /\ graphData # Null => Untouched(graphData))
    /\ [][/\ lastHandler' \in ExportHandlers
                          \cup {"dblclick", "click", "handleNodeClick",
                                "handleBackgroundClick", "handleResize"} =>
                /\ globalGraphData' = globalGraphData
                /\ graphData' = graphData
          /\ lastHandler' \in ExportHandlers =>
                /\ vanillaVars' = vanillaVars
                /\ reactVars' = reactVars
                /\ lastHandler = lastHandler' => download' = download]_vars

\* an export has been repeated after a layout pass on resize and a
\* selection, with the held graph untouched
C20_Witness ==
    /\ lastHandler = "handleExport"
    /\ download.kind = "json"
    /\ selectedNode # Null
    /\ filteredData # Null
    /\ Len(filteredData.links) >= 1
    /\ \E i \in 1..Len(filteredData.nodes) : Len(filteredData.nodes[i].xy.passes) >= 2
    /\ Untouched(graphData)
    /\ JsonParse(download.text).graph = graphData

(***************************************************************************)
(* Properties of the third group of claims.                                *)
(***************************************************************************)
MetaMissing == {d \in TabularChoices : d.missing \in {"Meta", "meta"}}

\* C21: after an import of a workbook without the Meta sheet or a database
\* without the meta table, the meta of the decoded graph, which is the meta
\* of the graph the page holds, has exactly the file's name and the counts
\* of the decoded nodes and of the decoded links (those whose endpoints
\* were found), and the panel shows these.
C21_SynthesizedMeta ==
    (lastImport \in MetaMissing) =>
        /\ Decoded.ok
        /\ alert = Succeeded
        /\ Decoded.graph.meta =
              [file |-> Str(FileOf(lastImport).name),
               stats |-> [nodes |-> Num(Len(Decoded.graph.nodes)),
                          links |-> Num(Len(Decoded.graph.links))]]
        /\ globalGraphData.meta = Decoded.graph.meta
        /\ statsPanel.file = Str(FileOf(lastImport).name)
        /\ statsPanel.nodes = Num(Len(Decoded.graph.nodes))
        /\ statsPanel.links = Num(Len(Decoded.graph.links))

\* a file without meta whose link rows were not all kept has been imported
C21_Witness ==
    /\ lastImport \in MetaMissing
    /\ Len(Decoded.graph.nodes) >= 2
    /\ Len(Decoded.graph.links) >= 1
    /\ Len(Decoded.graph.links) < Len(payload.links)

\* slot c's invocation ends in its catch block / ends with its engine
FailureStep(c) == loads[c].pc = "await" /\ loads'[c].pc = "failed"

SuccessStep(c) == loads[c].pc = "await" /\ loads'[c].pc = "idle"

\* C22: a database export or import whose engine fails to load alerts its
\* one error and changes neither the page's graph and display nor the last
\* download nor window.SQL, and the export's button is enabled again
\* (it is disabled exactly while an export waits for the engine); with or
\* without earlier failures, JSON and workbook exports write the held graph,
\* JSON and workbook imports succeed, and a database export or import that
\* gets an engine writes the database or shows the imported graph.
C22_EngineFailureIsLocal ==
    /\ [][\A c \in {ExportSlot, ImportSlot} :
            FailureStep(c) =>
              /\ alert' = IF loads[c].op = "export" THEN ExportFailed
                           ELSE ImportEngineFailed
              /\ vanillaVars' = vanillaVars
              /\ download' = download
              /\ windowSQL' = windowSQL
              /\ sqliteBtn' = IF loads[c].op = "export" THEN "enabled" ELSE sqliteBtn]_vars
    /\ [](sqliteBtn = "disabled" <=> loads[ExportSlot].pc = "await")
    /\ []((globalGraphData # Null /\ \E c \in {ExportSlot, ImportSlot} : loads[c].pc = "failed")
            => /\ ENABLED ExportData
               /\ ENABLED ExportDataToExcel)
    /\ [][/\ lastHandler' = "exportData" =>
                download' = JsonFile(DownloadJson, JsonStringify(globalGraphData))
          /\ lastHandler' = "exportDataToExcel" =>
                download' = XlsxFile(DownloadXlsx, ExcelWorkbook(globalGraphData))
          /\ lastImport' \in OtherChoices =>
                alert' = Succeeded /\ globalGraphData' # Null
          /\ SuccessStep(ExportSlot) =>
                /\ download' = DbFile(DownloadDb, SqliteDatabase(globalGraphData))
                /\ alert' = ""
          /\ SuccessStep(ImportSlot) =>
                alert' = Succeeded /\ globalGraphData' # Null]_vars

\* a database export has failed and its retry has written the database,
\* and a database import has failed and its retry has shown the graph
C22_Witness ==
    /\ loads[ExportSlot].pc = "idle"
    /\ loads[ImportSlot].pc = "idle"
    /\ "retry" \in DOMAIN loads[ExportSlot] /\ loads[ExportSlot].retry
    /\ "retry" \in DOMAIN loads[ImportSlot] /\ loads[ImportSlot].retry
    /\ download.kind = "db"
    /\ lastImport \in DbChoices
    /\ alert = Succeeded
    /\ globalGraphData # Null

\* the page's socket receives its terminal message in this step
TerminalStep(page) == upload[page].open /\ ~upload'[page].open

\* the ids of the first min(200, n) nodes of the payload
PayloadShown ==
    {IdList[i] : i \in 1..Min(DefaultNodeCount, payload.n)}

ShownIds(nodes) == {nodes[i].id.v : i \in 1..Len(nodes)}

PinnedNodes ==
    IF filteredData = Null THEN {}
    ELSE {i \in 1..Len(filteredData.nodes) :
            "fx" \in DOMAIN filteredData.nodes[i] /\ filteredData.nodes[i].fx # Null}

\* C24: in the React app the nodes with a pinned position are none while
\* no drag is active and exactly the dragged node during a drag, pinned
\* where it was at the start of the drag and then where the pointer is;
\* the selected node is pinned only if it is the dragged one, and the
\* nodes of the vanilla page, whose drag handlers set x and y only, never
\* carry a pinned position.
C24_PinnedOnlyWhileDragged ==
    /\ dragging = NoDrag => PinnedNodes = {}
    /\ dragging # NoDrag =>
          /\ PinnedNodes = {dragging.node}
          /\ filteredData.nodes[dragging.node].fx = Pin(dragging.at)
    /\ (selectedNode # Null /\ "fx" \in DOMAIN selectedNode /\ selectedNode.fx # Null)
          => /\ dragging # NoDrag
             /\ selectedNode.id = filteredData.nodes[dragging.node].id
    /\ \A i \in 1..Len(scene.nodes) : "fx" \notin DOMAIN scene.nodes[i]
    /\ globalGraphData # Null =>
          \A i \in 1..Len(globalGraphData.nodes) : "fx" \notin DOMAIN globalGraphData.nodes[i]

\* a node has been dragged with the pointer moved and released
C24_Witness ==
    /\ lastHandler = "drag.end"
    /\ dragging = NoDrag
    /\ \E i \in 1..Len(filteredData.nodes) :
          /\ "fx" \in DOMAIN filteredData.nodes[i]
          /\ filteredData.nodes[i].fx = Null
          /\ filteredData.nodes[i].xy.moved

\* shown has the first min(k, N) nodes of owned in their order and, in
\* their order, the links of owned with both endpoints among these nodes
Closed(shown, owned, k) ==
    LET first == Slice(owned.nodes, k)
        ids == {first[i].id : i \in 1..Len(first)}
        EndShown(l) == ReactId(l.source) \in ids /\ ReactId(l.target) \in ids
    IN  /\ Len(first) = Min(k, Len(owned.nodes))
        /\ IdsOf(shown.nodes) = IdsOf(first)
        /\ EndsOf(shown.links) = EndsOf(SelectSeq(owned.links, EndShown))
        /\ \A j \in 1..Len(shown.links) : EndShown(shown.links[j])

Limits == 0..(MaxNodes + 1)

\* C25: a step of the node-count filter with limit k shows the first
\* min(k, N) nodes of the graph the page holds before the step, in their
\* order, and exactly its links with both endpoints among them, in the
\* data given to the layout and in the drawing; and both filter functions
\* give such a result for every limit on every graph of the session, with
\* raw ids as endpoints (the held graphs) or node objects (the laid-out
\* graph).
C25_FilteredGraphClosure ==
    /\ [][/\ lastHandler' = "applyNodeFilter" =>
                /\ Closed(globalGraphData', globalGraphData, nodeRange'.value)
                /\ Closed(scene', globalGraphData, nodeRange'.value)
          /\ lastHandler' = "handleNodeRangeChange" =>
                /\ Closed(filteredData', graphData, nodeCount')
                /\ Closed(dom', graphData, nodeCount')]_vars
    /\ [](\A k \in Limits :
            /\ graphData # Null =>
                  Closed(FilterData(graphData, k), graphData, k)
            /\ filteredData # Null =>
                  /\ Closed(FilterData(filteredData, k), filteredData, k)
                  /\ Closed(FilteredGraph(filteredData, k), filteredData, k)
            /\ globalGraphData # Null =>
                  Closed(FilteredGraph(globalGraphData, k), globalGraphData, k))

\* the filter has hidden a node and dropped a link with it
C25_Witness ==
    /\ lastHandler = "handleNodeRangeChange"
    /\ Len(filteredData.nodes) >= 1
    /\ Len(filteredData.nodes) < Len(graphData.nodes)
    /\ Len(filteredData.links) < Len(graphData.links)
    /\ \E k \in 1..Len(graphData.links) :
          /\ ReactId(graphData.links[k].source) \in {filteredData.nodes[i].id : i \in 1..Len(filteredData.nodes)}
          /\ ReactId(graphData.links[k].target) \notin {filteredData.nodes[i].id : i \in 1..Len(filteredData.nodes)}

\* the nodes of the loaded graph a limit lets through
FirstLoaded(k) == IdsOf(Slice(PayloadGraph(payload).nodes, k))

\* C26: with loads and node-count filters only, the nodes a page displays
\* are the first min(k, N) nodes of the graph that was loaded, k being the
\* limit of the last filter call (the slider's value).
C26_FilterNonDestructive ==
    /\ globalGraphData # Null => IdsOf(scene.nodes) = FirstLoaded(nodeRange.value)
    /\ (graphData # Null /\ filteredData # Null) =>
          /\ IdsOf(filteredData.nodes) = FirstLoaded(nodeCount)
          /\ IdsOf(dom.nodes) = FirstLoaded(nodeCount)

\* the React half of C26, which holds
C26_ReactHalf ==
    (graphData # Null /\ filteredData # Null) =>
        /\ IdsOf(filteredData.nodes) = FirstLoaded(nodeCount)
        /\ IdsOf(dom.nodes) = FirstLoaded(nodeCount)

\* C27: in the React app the selected node is none or carries the id of a
\* node of the displayed (filtered) graph.
C27_SelectionIsDisplayed ==
    selectedNode # Null =>
        /\ filteredData # Null
        /\ \E i \in 1..Len(filteredData.nodes) : filteredData.nodes[i].id = selectedNode.id

\* C28: whenever the open context panel shows loaded node details, they are
\* the details of the currently selected node and stand under that node's
\* title, in whatever order the /context responses arrive.
C28_ContextMatchesSelection ==
    (contextOpen /\ context.content = "details") =>
        /\ selectedNode # Null
        /\ context.of = selectedNode.id
        /\ context.of = context.title

\* C29: every upload attempt eventually returns the UI to idle: once the
\* analysis task has started and its socket is there, the loading indicator
\* is eventually cleared and the upload button eventually enabled again,
\* whether the socket ends with a completed message, an error message, a
\* socket error or a close without a terminal message.
C29_UploadReturnsToIdle ==
    /\ (upload.vanilla.pc = "socket") ~>
           (~upload.vanilla.loading /\ upload.vanilla.btn = "enabled")
    /\ (upload.react.pc = "socket") ~>
           (~upload.react.loading /\ upload.react.btn = "enabled")

\* the two pages of C29 apart
C29_VanillaHalf ==
    (upload.vanilla.pc = "socket") ~>
        (~upload.vanilla.loading /\ upload.vanilla.btn = "enabled")

C29_ReactHalf ==
    (upload.react.pc = "socket") ~>
        (~upload.react.loading /\ upload.react.btn = "enabled")

\* C30: in the React app with a loaded graph, nodeCount is at most the number
\* of nodes of the owned graph and equals the number of nodes displayed,
\* after any sequence of loads, node-count changes and deletions.
C30_NodeCountIsDisplayed ==
    (graphData # Null /\ filteredData # Null) =>
        /\ nodeCount <= Len(graphData.nodes)
        /\ nodeCount = Len(filteredData.nodes)

====
